---------------------------- MODULE Spec2Model ----------------------------
(***************************************************************************)
(* A model of walk's GridLayout (the mutable grid model: cells, stretch   *)
(* factors, widget -> range bookkeeping) and of gridLayoutItem's space     *)
(* distribution (sectionSizesForSpace).                                    *)
(*                                                                         *)
(* Go slices are modelled as TLA+ sequences; the code's 0-based index i is *)
(* element i+1 of the sequence.  A pointer into l.cells (info.cell) is     *)
(* modelled as the position [r, c] of the cell it points at.               *)
(***************************************************************************)
EXTENDS Integers, Sequences, FiniteSets, TLC

(***************************************************************************)
(* Bounds of the inputs the model enumerates.                              *)
(***************************************************************************)
MaxX == 1
MaxY == 1
MaxWidth == 2
MaxHeight == 1
MaxIndex == 1
MaxFactor == 2
MaxCalls == 3

(***************************************************************************)
(* Widgets.  NoWidget is the nil Widget / nil *WidgetBase.  Children are   *)
(* the widgets for which l.container.Children().containsHandle(...) holds. *)
(***************************************************************************)
NoWidget == "nil"
Children == {"w1", "w2"}
Strangers == {"w3"}
Widgets == Children \cup Strangers

NoContainer == "nil"
TheContainer == "container"

NoInfo == [cell |-> "nil"]
NoError == "nil"

VARIABLES
    container,            \* l.container (LayoutBase)
    rowStretchFactors,    \* l.rowStretchFactors
    columnStretchFactors, \* l.columnStretchFactors
    widgetBase2Info,      \* l.widgetBase2Info; NoInfo where the map has no entry
    cells,                \* l.cells
    lastCall,             \* the last configuration call: its name, the error
                          \* it returned, how often it called RequestLayout
    lastRange,            \* history: widget -> rectangle of its last successful SetRange
    calls,                \* history: number of calls that changed the grid model
    items,                \* widget -> what the layout item created for it answers
    li,                   \* the gridLayoutItem CreateLayoutItem returned (NoSnapshot before)
    pc,                   \* how far the size computation on li has come
    size,                 \* the size the section sizes are computed for
    widths,               \* sectionSizesForSpace(Horizontal, size.Width, nil)
    heights,              \* sectionSizesForSpace(Vertical, size.Height, widths)
    sortedSections,       \* sortedSections of a run of sectionSizesForSpace
    loop,                 \* the other locals of that run: stretch factors, tier
                          \* totals and counts, loop indexes, remaining space,
                          \* the sizes assigned and, as history, their order
    mutex,                \* li.mutex: the caller holding it, or Unlocked
    size2MinSize,         \* li.size2MinSize, as the set of its entries
    callers,              \* caller of MinSizeForSize -> its position and locals
    alignment,            \* li.alignment (LayoutItemBase)
    results               \* the slice PerformLayout appends its entries to

gridVars == <<container, rowStretchFactors, columnStretchFactors, widgetBase2Info,
              cells, lastCall, lastRange, calls>>

layoutVars == <<items, li, pc, size, widths, heights>>

sortVars == <<sortedSections, loop>>

minSizeVars == <<mutex, size2MinSize, callers>>

performVars == <<alignment, results>>

vars == <<gridVars, layoutVars, sortVars, minSizeVars, performVars>>

maxi(a, b) == IF a > b THEN a ELSE b

(***************************************************************************)
(* The GridLayout's grid model as one value.                               *)
(***************************************************************************)
GridLayout ==
    [rowStretchFactors |-> rowStretchFactors,
     columnStretchFactors |-> columnStretchFactors,
     widgetBase2Info |-> widgetBase2Info,
     cells |-> cells]

\* NewGridLayout: empty slices, empty map, no container.
NewGridLayout ==
    [rowStretchFactors |-> <<>>,
     columnStretchFactors |-> <<>>,
     widgetBase2Info |-> [wb \in Widgets |-> NoInfo],
     cells |-> <<>>]

\* The zero value of gridLayoutCell.
gridLayoutCell == [row |-> 0, column |-> 0, widgetBase |-> NoWidget]

\* *ptr for a pointer into the cells.
Deref(cs, ptr) == cs[ptr.r + 1][ptr.c + 1]

\* sufficientStretchFactors without copy(temp, stretchFactors): the grown slice
\* loses the old factors (make's zero values stay).
sufficientStretchFactors_NoCopy(stretchFactors, required) ==
    LET oldLen == Len(stretchFactors)
    IN  IF oldLen < required
        THEN [i \in 1..required |-> IF i <= oldLen THEN 0 ELSE 1]
        ELSE stretchFactors

(***************************************************************************)
(* sufficientStretchFactors: the slice grown to `required` elements, the   *)
(* new ones set to 1.  Whether the code reallocates (cap < required) or    *)
(* reslices, the resulting elements are the same.                          *)
(***************************************************************************)
sufficientStretchFactors(stretchFactors, required) ==
    LET oldLen == Len(stretchFactors)
    IN  IF oldLen < required
        THEN [i \in 1..required |-> IF i <= oldLen THEN stretchFactors[i] ELSE 1]
        ELSE stretchFactors

\* ensureSufficientSize widening only the rows that existed before the call:
\* the rows it has just added stay empty.
ensureSufficientSize_NewRowsEmpty(l, rows, columns) ==
    LET rsf == sufficientStretchFactors(l.rowStretchFactors, rows)
        csf == sufficientStretchFactors(l.columnStretchFactors, columns)
        withRows ==
            IF Len(l.cells) < Len(rsf)
            THEN [i \in 1..Len(rsf) |-> IF i <= Len(l.cells) THEN l.cells[i] ELSE <<>>]
            ELSE l.cells
        withCols ==
            [i \in 1..Len(withRows) |->
                IF i <= Len(l.cells) /\ Len(withRows[i]) < Len(csf)
                THEN [j \in 1..Len(csf) |->
                        IF j <= Len(withRows[i]) THEN withRows[i][j] ELSE gridLayoutCell]
                ELSE withRows[i]]
        infos ==
            [wb \in Widgets |->
                IF l.widgetBase2Info[wb] = NoInfo
                THEN NoInfo
                ELSE LET old == Deref(l.cells, l.widgetBase2Info[wb].cell)
                     IN  [l.widgetBase2Info[wb] EXCEPT
                             !.cell = [r |-> old.row, c |-> old.column]]]
    IN  [rowStretchFactors |-> rsf,
         columnStretchFactors |-> csf,
         widgetBase2Info |-> infos,
         cells |-> withCols]

(***************************************************************************)
(* ensureSufficientSize: grows both stretch factor slices, then the rows   *)
(* of l.cells to the number of row factors, then each row to the number of *)
(* column factors (new cells are zero values; copy keeps the old ones),    *)
(* then re-points every info.cell through the row and column stored in the *)
(* cell it points at.                                                      *)
(***************************************************************************)
ensureSufficientSize(l, rows, columns) ==
    LET rsf == sufficientStretchFactors(l.rowStretchFactors, rows)
        csf == sufficientStretchFactors(l.columnStretchFactors, columns)
        withRows ==
            IF Len(l.cells) < Len(rsf)
            THEN [i \in 1..Len(rsf) |-> IF i <= Len(l.cells) THEN l.cells[i] ELSE <<>>]
            ELSE l.cells
        withCols ==
            [i \in 1..Len(withRows) |->
                IF Len(withRows[i]) < Len(csf)
                THEN [j \in 1..Len(csf) |->
                        IF j <= Len(withRows[i]) THEN withRows[i][j] ELSE gridLayoutCell]
                ELSE withRows[i]]
        infos ==
            [wb \in Widgets |->
                IF l.widgetBase2Info[wb] = NoInfo
                THEN NoInfo
                ELSE LET old == Deref(l.cells, l.widgetBase2Info[wb].cell)
                     IN  [l.widgetBase2Info[wb] EXCEPT
                             !.cell = [r |-> old.row, c |-> old.column]]]
    IN  [rowStretchFactors |-> rsf,
         columnStretchFactors |-> csf,
         widgetBase2Info |-> infos,
         cells |-> withCols]

\* RowStretchFactor answering 0 instead of the default 1 beyond the bounds.
RowStretchFactor_DefaultZero(l, row) ==
    IF row < 0 THEN -1
    ELSE IF row >= Len(l.rowStretchFactors) THEN 0
    ELSE l.rowStretchFactors[row + 1]

RowStretchFactor(l, row) ==
    IF row < 0 THEN -1
    ELSE IF row >= Len(l.rowStretchFactors) THEN 1
    ELSE l.rowStretchFactors[row + 1]

ColumnStretchFactor(l, column) ==
    IF column < 0 THEN -1
    ELSE IF column >= Len(l.columnStretchFactors) THEN 1
    ELSE l.columnStretchFactors[column + 1]

(***************************************************************************)
(* The result of a configuration call: the grid model after it, the error  *)
(* returned (NoError for nil) and the number of RequestLayout calls made.  *)
(***************************************************************************)
Result(l, err, requests) == [l |-> l, err |-> err, layoutRequests |-> requests]

\* SetRowStretchFactor without the container check.
SetRowStretchFactorCall_NoContainerCheck(l, c, row, factor) ==
    IF row < 0 THEN Result(l, "row must be >= 0", 0)
    ELSE IF factor # RowStretchFactor(l, row)
    THEN IF factor < 1 THEN Result(l, "factor must be >= 1", 0)
         ELSE LET g == ensureSufficientSize(l, row + 1, Len(l.columnStretchFactors))
              IN  Result([g EXCEPT !.rowStretchFactors[row + 1] = factor], NoError, 1)
    ELSE Result(l, NoError, 0)

SetRowStretchFactorCall(l, c, row, factor) ==
    IF row < 0 THEN Result(l, "row must be >= 0", 0)
    ELSE IF factor # RowStretchFactor(l, row)
    THEN IF c = NoContainer THEN Result(l, "container required", 0)
         ELSE IF factor < 1 THEN Result(l, "factor must be >= 1", 0)
         ELSE LET g == ensureSufficientSize(l, row + 1, Len(l.columnStretchFactors))
              IN  Result([g EXCEPT !.rowStretchFactors[row + 1] = factor], NoError, 1)
    ELSE Result(l, NoError, 0)

\* SetColumnStretchFactor accepting a factor of 0 (factor < 0 for factor < 1).
SetColumnStretchFactorCall_ZeroFactor(l, c, column, factor) ==
    IF column < 0 THEN Result(l, "column must be >= 0", 0)
    ELSE IF factor # ColumnStretchFactor(l, column)
    THEN IF c = NoContainer THEN Result(l, "container required", 0)
         ELSE IF factor < 0 THEN Result(l, "factor must be >= 1", 0)
         ELSE LET g == ensureSufficientSize(l, Len(l.rowStretchFactors), column + 1)
              IN  Result([g EXCEPT !.columnStretchFactors[column + 1] = factor], NoError, 1)
    ELSE Result(l, NoError, 0)

SetColumnStretchFactorCall(l, c, column, factor) ==
    IF column < 0 THEN Result(l, "column must be >= 0", 0)
    ELSE IF factor # ColumnStretchFactor(l, column)
    THEN IF c = NoContainer THEN Result(l, "container required", 0)
         ELSE IF factor < 1 THEN Result(l, "factor must be >= 1", 0)
         ELSE LET g == ensureSufficientSize(l, Len(l.rowStretchFactors), column + 1)
              IN  Result([g EXCEPT !.columnStretchFactors[column + 1] = factor], NoError, 1)
    ELSE Result(l, NoError, 0)

rangeFromGridLayoutWidgetInfo(cs, info) ==
    [X |-> Deref(cs, info.cell).column,
     Y |-> Deref(cs, info.cell).row,
     Width |-> info.spanHorz,
     Height |-> info.spanVert]

\* setWidgetOnCells: every cell of r references wb (NoWidget for a nil widget).
setWidgetOnCells(cs, wb, r) ==
    [row \in 1..Len(cs) |->
        [col \in 1..Len(cs[row]) |->
            IF /\ r.Y <= row - 1 /\ row - 1 < r.Y + r.Height
               /\ r.X <= col - 1 /\ col - 1 < r.X + r.Width
            THEN [cs[row][col] EXCEPT !.widgetBase = wb]
            ELSE cs[row][col]]]

NotFound == [ok |-> FALSE, r |-> [X |-> 0, Y |-> 0, Width |-> 0, Height |-> 0]]

Range(l, c, widget) ==
    IF widget = NoWidget THEN NotFound
    ELSE IF \/ l.widgetBase2Info[widget] = NoInfo
            \/ c = NoContainer
            \/ widget \notin Children
    THEN NotFound
    ELSE [ok |-> TRUE, r |-> rangeFromGridLayoutWidgetInfo(l.cells, l.widgetBase2Info[widget])]

\* SetRange's checks without the check that the widget is a child.
SetRangeError_NoChildCheck(c, widget, r) ==
    IF widget = NoWidget THEN "widget required"
    ELSE IF c = NoContainer THEN "container required"
    ELSE IF r.X < 0 \/ r.Y < 0 THEN "range.X and range.Y must be >= 0"
    ELSE IF r.Width < 1 \/ r.Height < 1
    THEN "range.Width and range.Height must be >= 1"
    ELSE NoError

\* SetRange's checks, in the code's order: the error returned, NoError if none.
SetRangeError(c, widget, r) ==
    IF widget = NoWidget THEN "widget required"
    ELSE IF c = NoContainer THEN "container required"
    ELSE IF widget \notin Children THEN "widget must be child of container"
    ELSE IF r.X < 0 \/ r.Y < 0 THEN "range.X and range.Y must be >= 0"
    ELSE IF r.Width < 1 \/ r.Height < 1
    THEN "range.Width and range.Height must be >= 1"
    ELSE NoError

\* SetRange that does not store the origin's row and column in the cell.
SetRangeApply_NoStamp(l, widget, r) ==
    LET known == l.widgetBase2Info[widget] # NoInfo
        cleared ==
            IF known
            THEN [l EXCEPT !.cells = setWidgetOnCells(l.cells, NoWidget,
                      rangeFromGridLayoutWidgetInfo(l.cells, l.widgetBase2Info[widget]))]
            ELSE l
        grown == ensureSufficientSize(cleared, r.Y + r.Height, r.X + r.Width)
        info == [cell |-> [r |-> r.Y, c |-> r.X],
                 spanHorz |-> r.Width,
                 spanVert |-> r.Height]
    IN  [grown EXCEPT
            !.widgetBase2Info[widget] = info,
            !.cells = setWidgetOnCells(grown.cells, widget, r)]

(***************************************************************************)
(* SetRange after its checks: an info already in the map has its old cells *)
(* cleared; the grid grows; the origin cell gets its row and column; the   *)
(* info is stored (a new one only now, after ensureSufficientSize) with    *)
(* the new origin and spans; every cell of r references the widget.        *)
(***************************************************************************)
SetRangeApply(l, widget, r) ==
    LET known == l.widgetBase2Info[widget] # NoInfo
        cleared ==
            IF known
            THEN [l EXCEPT !.cells = setWidgetOnCells(l.cells, NoWidget,
                      rangeFromGridLayoutWidgetInfo(l.cells, l.widgetBase2Info[widget]))]
            ELSE l
        grown == ensureSufficientSize(cleared, r.Y + r.Height, r.X + r.Width)
        stamped == [grown.cells EXCEPT ![r.Y + 1][r.X + 1] =
                       [@ EXCEPT !.row = r.Y, !.column = r.X]]
        info == [cell |-> [r |-> r.Y, c |-> r.X],
                 spanHorz |-> r.Width,
                 spanVert |-> r.Height]
    IN  [grown EXCEPT
            !.widgetBase2Info[widget] = info,
            !.cells = setWidgetOnCells(stamped, widget, r)]

SetRangeCall(l, c, widget, r) ==
    LET err == SetRangeError(c, widget, r)
    IN  IF err # NoError
        THEN Result(l, err, 0)
        ELSE Result(SetRangeApply(l, widget, r), NoError, 0)

(***************************************************************************)
(* The state machine of the grid model.                                    *)
(***************************************************************************)
\* No CreateLayoutItem yet: the layout pass has nothing to work on.
NoSnapshot == [cells |-> <<>>]

\* No layout item has been created for the widget.
NotCreated == [visible |-> FALSE]

\* No run of sectionSizesForSpace is followed step by step.
NoRun == sortedSections = <<>> /\ loop = [i |-> 0]

\* li.mutex when no caller holds it.
Unlocked == "unlocked"

\* The callers of MinSizeForSize.
Callers == {"c1", "c2"}

\* A caller that has not called.
Idle == [pc |-> "idle"]

AlignHVDefault == "AlignHVDefault"

\* PerformLayout has not run; the alignment of the layout is the default.
NoResults ==
    /\ alignment = AlignHVDefault
    /\ results = <<>>

\* Nobody has called MinSizeForSize: the mutex is free, the map is empty.
NoCalls ==
    /\ mutex = Unlocked
    /\ size2MinSize = {}
    /\ callers = [c \in Callers |-> Idle]

NoLayoutItem ==
    /\ items = [wb \in Widgets |-> NotCreated]
    /\ li = NoSnapshot
    /\ pc = "configure"
    /\ size = [Width |-> 0, Height |-> 0]
    /\ widths = <<>>
    /\ heights = <<>>

Init ==
    /\ container = NoContainer
    /\ rowStretchFactors = NewGridLayout.rowStretchFactors
    /\ columnStretchFactors = NewGridLayout.columnStretchFactors
    /\ widgetBase2Info = NewGridLayout.widgetBase2Info
    /\ cells = NewGridLayout.cells
    /\ lastCall = [op |-> "NewGridLayout", err |-> NoError, layoutRequests |-> 0]
    /\ lastRange = [wb \in Widgets |-> NotFound]
    /\ calls = 0
    /\ NoLayoutItem
    /\ NoRun
    /\ NoCalls
    /\ NoResults

\* The fields of the grid model after a call.
Becomes(l) ==
    /\ rowStretchFactors' = l.rowStretchFactors
    /\ columnStretchFactors' = l.columnStretchFactors
    /\ widgetBase2Info' = l.widgetBase2Info
    /\ cells' = l.cells

Counted(l) ==
    /\ (l # GridLayout => calls < MaxCalls)
    /\ calls' = IF l # GridLayout THEN calls + 1 ELSE calls

Rectangles ==
    [X : -1..MaxX, Y : -1..MaxY, Width : 0..MaxWidth, Height : 0..MaxHeight]

SetContainer(c) ==
    /\ container' = c
    /\ lastCall' = [op |-> "SetContainer", err |-> NoError, layoutRequests |-> 0]
    /\ UNCHANGED <<performVars, rowStretchFactors, columnStretchFactors, widgetBase2Info, cells,
                   lastRange, calls, layoutVars, sortVars,
                   minSizeVars>>

SetRange(widget, r) ==
    LET res == SetRangeCall(GridLayout, container, widget, r)
    IN  /\ Counted(res.l)
        /\ Becomes(res.l)
        /\ lastCall' = [op |-> "SetRange", err |-> res.err,
                        layoutRequests |-> res.layoutRequests]
        /\ lastRange' = IF res.err = NoError
                        THEN [lastRange EXCEPT ![widget] = [ok |-> TRUE, r |-> r]]
                        ELSE lastRange
        /\ UNCHANGED <<performVars, container, layoutVars, sortVars, minSizeVars>>

SetRowStretchFactor(row, factor) ==
    LET res == SetRowStretchFactorCall(GridLayout, container, row, factor)
    IN  /\ Counted(res.l)
        /\ Becomes(res.l)
        /\ lastCall' = [op |-> "SetRowStretchFactor", err |-> res.err,
                        layoutRequests |-> res.layoutRequests]
        /\ UNCHANGED <<performVars, container, lastRange, layoutVars, sortVars, minSizeVars>>

SetColumnStretchFactor(column, factor) ==
    LET res == SetColumnStretchFactorCall(GridLayout, container, column, factor)
    IN  /\ Counted(res.l)
        /\ Becomes(res.l)
        /\ lastCall' = [op |-> "SetColumnStretchFactor", err |-> res.err,
                        layoutRequests |-> res.layoutRequests]
        /\ UNCHANGED <<performVars, container, lastRange, layoutVars, sortVars, minSizeVars>>

Next ==
    \/ \E c \in {NoContainer, TheContainer} : SetContainer(c)
    \/ \E widget \in Widgets \cup {NoWidget}, r \in Rectangles : SetRange(widget, r)
    \/ \E row \in -1..MaxIndex, factor \in 0..MaxFactor : SetRowStretchFactor(row, factor)
    \/ \E column \in -1..MaxIndex, factor \in 0..MaxFactor :
           SetColumnStretchFactor(column, factor)

Spec == Init /\ [][Next]_vars

(***************************************************************************)
(* Properties of the grid model.  A property of a call is stated of the    *)
(* call's result in every reachable state, for every argument the model    *)
(* enumerates.                                                             *)
(***************************************************************************)
WidgetArgs == Widgets \cup {NoWidget}
Indexes == -1..MaxIndex
Factors == 0..MaxFactor

\* What each configuration call returns in the current state.
SetRangeResult(widget, r) == SetRangeCall(GridLayout, container, widget, r)
SetRowStretchFactorResult(row, factor) ==
    SetRowStretchFactorCall(GridLayout, container, row, factor)
SetColumnStretchFactorResult(column, factor) ==
    SetColumnStretchFactorCall(GridLayout, container, column, factor)

\* The results of all configuration calls in the current state.
ConfigurationResults ==
    {SetRangeResult(widget, r) : widget \in WidgetArgs, r \in Rectangles}
    \cup {SetRowStretchFactorResult(row, factor) : row \in Indexes, factor \in Factors}
    \cup {SetColumnStretchFactorResult(column, factor) :
              column \in Indexes, factor \in Factors}

\* The call returned an error and left the grid model as it was.
Refuses(res) == res.err # NoError /\ res.l = GridLayout

\* The call returned nil and did nothing.
NoOp(res) == res.err = NoError /\ res.l = GridLayout /\ res.layoutRequests = 0

\* The cells of rectangle r, as positions of the code (0-based).
CellsOf(r) == (r.Y..(r.Y + r.Height - 1)) \X (r.X..(r.X + r.Width - 1))

\* The recorded range of a widget with an info.
RecordedRange(wb) == rangeFromGridLayoutWidgetInfo(cells, widgetBase2Info[wb])

\* C1: for every widget that has a recorded range, every cell inside that
\* range references the widget (whatever SetRange calls succeeded before,
\* overlapping ones and re-assignments included).
C1_RangeCellsReferenceWidget ==
    \A wb \in Widgets :
        widgetBase2Info[wb] # NoInfo =>
            \A p \in CellsOf(RecordedRange(wb)) :
                cells[p[1] + 1][p[2] + 1].widgetBase = wb

\* The arguments C2 names: SetRange must refuse them.
C2_Refused(widget, r) ==
    \/ r.X < 0 \/ r.Y < 0 \/ r.Width < 1 \/ r.Height < 1
    \/ widget = NoWidget
    \/ widget \notin Children

\* C2: SetRange(widget, r) returns an error whenever r.X < 0, r.Y < 0,
\* r.Width < 1, r.Height < 1, the widget is nil or not a child of the
\* container, and the grid model is then exactly as before the call.
C2_SetRangeRejectsInvalid ==
    \A widget \in WidgetArgs, r \in Rectangles :
        C2_Refused(widget, r) => Refuses(SetRangeResult(widget, r))

\* C2's case: a SetRange that was refused for its rectangle, on a grid that
\* already holds a widget.
C2_Witness ==
    /\ lastCall.op = "SetRange"
    /\ lastCall.err = "range.Width and range.Height must be >= 1"
    /\ \E wb \in Children : widgetBase2Info[wb] # NoInfo

\* C3: every call that changes the grid model (a stretch factor call that
\* changes a factor, a successful SetRange that assigns or changes a range)
\* has called RequestLayout exactly once before it returns.
C3_MutationRequestsLayout ==
    \A res \in ConfigurationResults :
        (res.err = NoError /\ res.l # GridLayout) => res.layoutRequests = 1

\* C4 as stated: a configuration call made while the layout has no container
\* returns an error and leaves the grid model unchanged, whatever its
\* arguments (a factor equal to the current one included).
C4_NoContainerAlwaysError ==
    container = NoContainer => \A res \in ConfigurationResults : Refuses(res)

\* A stretch factor call that asks for the factor the index already has.
SameRowFactor(row, factor) == row >= 0 /\ factor = RowStretchFactor(GridLayout, row)
SameColumnFactor(column, factor) ==
    column >= 0 /\ factor = ColumnStretchFactor(GridLayout, column)

\* C4 amended: without a container no configuration call changes the grid
\* model; SetRange always returns an error, and a stretch factor call returns
\* an error unless its index is >= 0 and the factor is the index's current
\* effective factor, in which case it returns nil.
C4_NoContainerNoMutation ==
    container = NoContainer =>
        /\ \A widget \in WidgetArgs, r \in Rectangles :
               Refuses(SetRangeResult(widget, r))
        /\ \A row \in Indexes, factor \in Factors :
               LET res == SetRowStretchFactorResult(row, factor)
               IN  /\ res.l = GridLayout
                   /\ res.err = NoError <=> SameRowFactor(row, factor)
        /\ \A column \in Indexes, factor \in Factors :
               LET res == SetColumnStretchFactorResult(column, factor)
               IN  /\ res.l = GridLayout
                   /\ res.err = NoError <=> SameColumnFactor(column, factor)

\* C4's case: a stretch factor call refused for the missing container, on a
\* layout that has lost its container after a widget was placed.
C4_Witness ==
    /\ container = NoContainer
    /\ lastCall.op = "SetRowStretchFactor"
    /\ lastCall.err = "container required"
    /\ \E wb \in Children : widgetBase2Info[wb] # NoInfo

\* C5: a stretch factor call with index < 0 or factor < 1 returns an error,
\* changes neither the stretch factors nor the cells and requests no layout.
C5_StretchFactorRejectsInvalid ==
    \A index \in Indexes, factor \in Factors :
        (index < 0 \/ factor < 1) =>
            \A res \in {SetRowStretchFactorResult(index, factor),
                        SetColumnStretchFactorResult(index, factor)} :
                Refuses(res) /\ res.layoutRequests = 0

\* C5's case: a factor below 1 refused on a layout with a container.
C5_Witness ==
    /\ container = TheContainer
    /\ lastCall.op = "SetColumnStretchFactor"
    /\ lastCall.err = "factor must be >= 1"

\* C6: a stretch factor call with index >= 0 and the index's current
\* effective factor (the stored one, or 1 beyond the bounds) returns nil and
\* does nothing: no growth, no changed element, no layout request.
C6_SameFactorIsNoOp ==
    /\ \A row \in 0..(Len(rowStretchFactors) + 1) :
           LET current == IF row < Len(rowStretchFactors)
                          THEN rowStretchFactors[row + 1] ELSE 1
           IN  NoOp(SetRowStretchFactorResult(row, current))
    /\ \A column \in 0..(Len(columnStretchFactors) + 1) :
           LET current == IF column < Len(columnStretchFactors)
                          THEN columnStretchFactors[column + 1] ELSE 1
           IN  NoOp(SetColumnStretchFactorResult(column, current))

\* C6's case: a row call that returned nil without a layout request while
\* there is no row at all: its index was beyond the bounds, its factor the
\* default 1, and no row was added.
C6_Witness ==
    /\ lastCall.op = "SetRowStretchFactor"
    /\ lastCall.err = NoError
    /\ lastCall.layoutRequests = 0
    /\ rowStretchFactors = <<>>
    /\ columnStretchFactors # <<>>

LockStep ==
    /\ Len(cells) = Len(rowStretchFactors)
    /\ \A i \in 1..Len(cells) : Len(cells[i]) = Len(columnStretchFactors)

\* C7: the number of cell rows is len(rowStretchFactors), every cell row has
\* len(columnStretchFactors) cells, and neither count ever decreases.
C7_LockStepNeverShrinks ==
    /\ []LockStep
    /\ [][/\ Len(rowStretchFactors') >= Len(rowStretchFactors)
          /\ Len(columnStretchFactors') >= Len(columnStretchFactors)]_vars

\* C7's case: a grid grown on both axes, by SetRange and by a stretch factor.
C7_Witness ==
    /\ Len(rowStretchFactors) = 2
    /\ Len(columnStretchFactors) = 3
    /\ \E wb \in Children : widgetBase2Info[wb] # NoInfo
    /\ lastCall.op = "SetRowStretchFactor"
    /\ lastCall.layoutRequests = 1

\* The call grew the grid to g.
Grows(g) ==
    \/ Len(g.rowStretchFactors) > Len(rowStretchFactors)
    \/ Len(g.columnStretchFactors) > Len(columnStretchFactors)

\* In g the cells that existed before the call keep their widget, except
\* those at the positions in `but`.
CellsKept(g, but) ==
    \A i \in 1..Len(cells) : \A j \in 1..Len(cells[i]) :
        <<i - 1, j - 1>> \notin but =>
            g.cells[i][j].widgetBase = cells[i][j].widgetBase

\* In g the stretch factors that existed before the call keep their value.
FactorsKept(g) ==
    /\ \A i \in 1..Len(rowStretchFactors) :
           g.rowStretchFactors[i] = rowStretchFactors[i]
    /\ \A j \in 1..Len(columnStretchFactors) :
           g.columnStretchFactors[j] = columnStretchFactors[j]

\* In g the stretch factor slots the call created are 1, except row slot
\* `row` and column slot `column` (0-based; -1 for none).
NewSlotsAreOne(g, row, column) ==
    /\ \A i \in (Len(rowStretchFactors) + 1)..Len(g.rowStretchFactors) :
           i - 1 # row => g.rowStretchFactors[i] = 1
    /\ \A j \in (Len(columnStretchFactors) + 1)..Len(g.columnStretchFactors) :
           j - 1 # column => g.columnStretchFactors[j] = 1

\* The cells of the widget a SetRange re-assigns: its old range and its new one.
ReassignedCells(widget, r) ==
    CellsOf(r) \cup
        (IF widget \in Widgets /\ widgetBase2Info[widget] # NoInfo
         THEN CellsOf(RecordedRange(widget)) ELSE {})

\* RowStretchFactor and ColumnStretchFactor answer 1 at and beyond the bounds.
DefaultFactorBeyondBounds ==
    \A k \in 0..MaxIndex :
        /\ RowStretchFactor(GridLayout, Len(rowStretchFactors) + k) = 1
        /\ ColumnStretchFactor(GridLayout, Len(columnStretchFactors) + k) = 1

\* What C8 says of a SetRange that grows the grid.
SetRangeGrowthPreserves ==
    \A widget \in WidgetArgs, r \in Rectangles :
        LET g == SetRangeResult(widget, r).l
        IN  Grows(g) =>
                /\ CellsKept(g, ReassignedCells(widget, r))
                /\ FactorsKept(g)
                /\ NewSlotsAreOne(g, -1, -1)

\* C8 as stated: when a call grows the grid, every cell that existed keeps
\* its widget (but the cells of the widget being re-assigned), every stretch
\* factor that existed keeps its value, every new stretch factor slot is 1,
\* and the getters answer 1 at and beyond the bounds.
C8_GrowthAllNewSlotsOne ==
    /\ DefaultFactorBeyondBounds
    /\ SetRangeGrowthPreserves
    /\ \A index \in Indexes, factor \in Factors :
           \A g \in {SetRowStretchFactorResult(index, factor).l,
                     SetColumnStretchFactorResult(index, factor).l} :
               Grows(g) =>
                   (CellsKept(g, {}) /\ FactorsKept(g) /\ NewSlotsAreOne(g, -1, -1))

\* C8 amended: as C8, but the new stretch factor slots are 1 except the one
\* slot a stretch factor call sets, which holds the factor passed.
C8_GrowthPreserves ==
    /\ DefaultFactorBeyondBounds
    /\ SetRangeGrowthPreserves
    /\ \A row \in Indexes, factor \in Factors :
           LET g == SetRowStretchFactorResult(row, factor).l
           IN  Grows(g) =>
                   /\ CellsKept(g, {})
                   /\ FactorsKept(g)
                   /\ NewSlotsAreOne(g, row, -1)
                   /\ g.rowStretchFactors[row + 1] = factor
    /\ \A column \in Indexes, factor \in Factors :
           LET g == SetColumnStretchFactorResult(column, factor).l
           IN  Grows(g) =>
                   /\ CellsKept(g, {})
                   /\ FactorsKept(g)
                   /\ NewSlotsAreOne(g, -1, column)
                   /\ g.columnStretchFactors[column + 1] = factor

\* C8's case: a grid that grew past a placed widget and a factor set before:
\* column 0 has factor 2, a widget sits in row 0, and a later call added
\* row 1 and column 1.
C8_Witness ==
    /\ Len(columnStretchFactors) >= 2
    /\ columnStretchFactors[1] = 2
    /\ Len(rowStretchFactors) = 2
    /\ \E wb \in Children :
           /\ widgetBase2Info[wb] # NoInfo
           /\ RecordedRange(wb).Y = 0
           /\ RecordedRange(wb).Height = 1
    /\ calls = MaxCalls

\* C9: for a child of the container, Range answers not-found when no
\* SetRange has succeeded for it, and otherwise exactly the rectangle of the
\* most recent successful SetRange for it.
C9_RangeIsLastSetRange ==
    container = TheContainer =>
        \A widget \in Children :
            Range(GridLayout, container, widget) = lastRange[widget]

\* C9's case: a widget placed away from the origin, then another widget
\* placed and the grid grown, with the container still there.
C9_Witness ==
    /\ container = TheContainer
    /\ lastRange["w1"].ok /\ lastRange["w1"].r.X = 1 /\ lastRange["w1"].r.Y = 1
    /\ lastRange["w2"].ok /\ lastRange["w2"].r.X = 0
    /\ lastCall.op = "SetRange" /\ lastCall.err = NoError
    /\ cells[1][1].widgetBase = "w2"
    /\ calls = MaxCalls

(***************************************************************************)
(* The layout items.  The item created for a widget is named like the      *)
(* widget; NoItem is the nil LayoutItem.  items[it] holds what the item     *)
(* answers to the queries of the grid layout item:                          *)
(*   spacer      it is a *spacerLayoutItem                                  *)
(*   visible     shouldLayoutItem(it)                                       *)
(*   flags       it.LayoutFlags()                                           *)
(*   idealSize   it.IdealSize()                                             *)
(*   minSize     li.MinSizeEffectiveForChild(it)                            *)
(*   maxSize     it.Geometry().MaxSize                                      *)
(*   hfw         it is a HeightForWidther with HasHeightForWidth()          *)
(*   area        HeightForWidth(w) is area / w, rounded up                  *)
(***************************************************************************)
NoItem == NoWidget

Size(w, h) == [Width |-> w, Height |-> h]

\* NewHSpacer: no size hint, greedy and growable horizontally.
HSpacer ==
    [spacer |-> TRUE, visible |-> TRUE,
     flags |-> {"ShrinkableHorz", "ShrinkableVert", "GrowableHorz", "GreedyHorz"},
     idealSize |-> Size(0, 0), minSize |-> Size(0, 0), maxSize |-> Size(0, 0),
     hfw |-> FALSE, area |-> 0]

\* NewVSpacer: no size hint, greedy and growable vertically.
VSpacer ==
    [spacer |-> TRUE, visible |-> TRUE,
     flags |-> {"ShrinkableHorz", "ShrinkableVert", "GrowableVert", "GreedyVert"},
     idealSize |-> Size(0, 0), minSize |-> Size(0, 0), maxSize |-> Size(0, 0),
     hfw |-> FALSE, area |-> 0]

\* An ImageView in ImageViewModeIdeal with a 30x20 image and no margin: no
\* flags, its ideal size and its minimum size are the image's.
ImageViewIdeal ==
    [spacer |-> FALSE, visible |-> TRUE,
     flags |-> {},
     idealSize |-> Size(30, 20), minSize |-> Size(30, 20), maxSize |-> Size(0, 0),
     hfw |-> FALSE, area |-> 0]

\* An ImageView in another mode with no margin: every flag, ideal size
\* 100x100, minimum size 1x1.
ImageViewZoom ==
    [spacer |-> FALSE, visible |-> TRUE,
     flags |-> {"ShrinkableHorz", "ShrinkableVert", "GrowableHorz", "GrowableVert",
                "GreedyHorz", "GreedyVert"},
     idealSize |-> Size(100, 100), minSize |-> Size(1, 1), maxSize |-> Size(0, 0),
     hfw |-> FALSE, area |-> 0]

\* A widget that grows on both axes, with minimum size 50x10 and no maximum.
Growable ==
    [spacer |-> FALSE, visible |-> TRUE,
     flags |-> {"ShrinkableHorz", "ShrinkableVert", "GrowableHorz", "GrowableVert"},
     idealSize |-> Size(60, 12), minSize |-> Size(50, 10), maxSize |-> Size(0, 0),
     hfw |-> FALSE, area |-> 0]

\* The same widget with a maximum size of 40x40 set, below its minimum width.
Capped ==
    [spacer |-> FALSE, visible |-> TRUE,
     flags |-> {"ShrinkableHorz", "ShrinkableVert", "GrowableHorz", "GrowableVert"},
     idealSize |-> Size(60, 12), minSize |-> Size(50, 10), maxSize |-> Size(40, 40),
     hfw |-> FALSE, area |-> 0]

\* A wrapping label: height for width, growable horizontally only.
Label ==
    [spacer |-> FALSE, visible |-> TRUE,
     flags |-> {"ShrinkableHorz", "GrowableHorz"},
     idealSize |-> Size(80, 10), minSize |-> Size(20, 10), maxSize |-> Size(0, 0),
     hfw |-> TRUE, area |-> 800]

\* A hidden widget: shouldLayoutItem is false.
Hidden ==
    [spacer |-> FALSE, visible |-> FALSE,
     flags |-> {"GrowableHorz", "GrowableVert", "GreedyHorz", "GreedyVert"},
     idealSize |-> Size(70, 70), minSize |-> Size(70, 70), maxSize |-> Size(0, 0),
     hfw |-> FALSE, area |-> 0]

ItemKinds ==
    {HSpacer, VSpacer, ImageViewIdeal, ImageViewZoom, Growable, Capped, Label, Hidden}

\* Every item is laid out.
shouldLayoutItem_Always(it) == TRUE

shouldLayoutItem(it) == items[it].visible

MinSizeEffectiveForChild(it) == items[it].minSize

HasHeightForWidth(it) == items[it].hfw

HeightForWidth(it, width) ==
    IF width <= 0 THEN items[it].area
    ELSE (items[it].area + width - 1) \div width

\* pref: the ideal size of an item without height for width, else the zero size.
PreferredSize(it) == IF ~HasHeightForWidth(it) THEN items[it].idealSize ELSE Size(0, 0)

maxPixel(a, b) == IF a > b THEN a ELSE b

(***************************************************************************)
(* CreateLayoutItem: the snapshot of the grid model.  Every cell gets its   *)
(* own row and column and the item of its widget; children lists the items  *)
(* in the order their first cell is met, row by row; item2Info has one      *)
(* entry per entry of widgetBase2Info, under the widget's item, or under    *)
(* the nil item when no cell references the widget (where several such      *)
(* entries collide, the map's iteration order decides: `orphan` is the one  *)
(* that stays).  margins, spacing and the dpi of the layout context are    *)
(* filled in by the caller from the LayoutBase and the context.            *)
(***************************************************************************)
Referenced(l) ==
    {l.cells[i][j].widgetBase : i \in 1..Len(l.cells), j \in 1..Len(l.columnStretchFactors)}
        \ {NoWidget}

Orphans(l) == {wb \in Widgets : l.widgetBase2Info[wb] # NoInfo /\ wb \notin Referenced(l)}

RECURSIVE childrenFrom(_, _, _)
\* The children met from the k-th cell on (row by row), `seen` being those met before.
childrenFrom(l, k, seen) ==
    LET columns == Len(l.columnStretchFactors)
        total == Len(l.cells) * columns
    IN  IF k > total THEN <<>>
        ELSE LET wb == l.cells[((k - 1) \div columns) + 1][((k - 1) % columns) + 1].widgetBase
             IN  IF wb = NoWidget \/ wb \in seen
                 THEN childrenFrom(l, k + 1, seen)
                 ELSE <<wb>> \o childrenFrom(l, k + 1, seen \cup {wb})

snapshotInfo(l, wb) ==
    LET info == l.widgetBase2Info[wb]
        cell == Deref(l.cells, info.cell)
    IN  [cell |-> [r |-> cell.row, c |-> cell.column],
         spanHorz |-> info.spanHorz,
         spanVert |-> info.spanVert]

CreateLayoutItem(l, orphan, margins, spacing, dpi) ==
    [children |-> childrenFrom(l, 1, {}),
     rowStretchFactors |-> l.rowStretchFactors,
     columnStretchFactors |-> l.columnStretchFactors,
     item2Info |->
        [it \in Widgets \cup {NoItem} |->
            IF it = NoItem
            THEN IF orphan = NoWidget THEN NoInfo ELSE snapshotInfo(l, orphan)
            ELSE IF l.widgetBase2Info[it] # NoInfo /\ it \in Referenced(l)
                 THEN snapshotInfo(l, it)
                 ELSE NoInfo],
     cells |->
        [i \in 1..Len(l.cells) |->
            [j \in 1..Len(l.cells[i]) |->
                [row |-> i - 1, column |-> j - 1, item |-> l.cells[i][j].widgetBase]]],
     margins |-> margins,
     spacing |-> spacing,
     dpi |-> dpi]

\* IntFrom96DPI: the value scaled by dpi / 96 and rounded to the nearest pixel.
IntFrom96DPI(value, dpi) == (2 * value * dpi + 96) \div 192

MarginsFrom96DPI(margins, dpi) ==
    [HNear |-> IntFrom96DPI(margins.HNear, dpi),
     VNear |-> IntFrom96DPI(margins.VNear, dpi),
     HFar |-> IntFrom96DPI(margins.HFar, dpi),
     VFar |-> IntFrom96DPI(margins.VFar, dpi)]

Horizontal == "Horizontal"
Vertical == "Vertical"

RECURSIVE spannedFrom(_, _, _, _, _)
\* The sum spannedWidth and spannedHeight build from section i on (0-based):
\* the sections of the span that are not 0, and the spacing before each of
\* them but the span's first section.
spannedFrom(sizes, spacing, first, last, i) ==
    IF i > last THEN 0
    ELSE (IF sizes[i + 1] > 0
          THEN sizes[i + 1] + (IF i > first THEN spacing ELSE 0)
          ELSE 0)
         + spannedFrom(sizes, spacing, first, last, i + 1)

spannedWidth(snap, info, ws) ==
    spannedFrom(ws, IntFrom96DPI(snap.spacing, snap.dpi), info.cell.c, info.cell.c + info.spanHorz - 1, info.cell.c)

spannedHeight(snap, info, hs) ==
    spannedFrom(hs, IntFrom96DPI(snap.spacing, snap.dpi), info.cell.r, info.cell.r + info.spanVert - 1, info.cell.r)

(***************************************************************************)
(* sectionSizesForSpace, first loop: what one laid-out item in cell (i, j)  *)
(* of the section does to the section's minimum size, maximum size and      *)
(* greedy flags (acc).                                                      *)
(***************************************************************************)
visitItem(snap, orientation, ws, it, acc) ==
    LET info == snap.item2Info[it]
        flags == items[it].flags
        max == items[it].maxSize
        pref == PreferredSize(it)
    IN  IF orientation = Horizontal
        THEN LET min == IF info.spanHorz = 1
                        THEN maxPixel(acc.minSize, MinSizeEffectiveForChild(it).Width)
                        ELSE acc.minSize
                 greedy == info.spanHorz = 1 /\ "GreedyHorz" \in flags
             IN  [minSize |-> min,
                  maxSize |->
                      IF max.Width > 0 THEN maxPixel(acc.maxSize, max.Width)
                      ELSE IF pref.Width > 0 /\ "GrowableHorz" \notin flags
                      THEN maxPixel(acc.maxSize, pref.Width)
                      ELSE 32768,
                  hasGreedySpacer |-> acc.hasGreedySpacer \/ (greedy /\ items[it].spacer),
                  hasGreedyNonSpacer |->
                      acc.hasGreedyNonSpacer \/ (greedy /\ ~items[it].spacer)]
        ELSE LET min == IF info.spanVert = 1
                        THEN IF HasHeightForWidth(it)
                             THEN maxPixel(acc.minSize,
                                      HeightForWidth(it, spannedWidth(snap, info, ws)))
                             ELSE maxPixel(acc.minSize, MinSizeEffectiveForChild(it).Height)
                        ELSE acc.minSize
                 greedy == info.spanVert = 1 /\ "GreedyVert" \in flags
             IN  [minSize |-> min,
                  maxSize |->
                      IF max.Height > 0 THEN maxPixel(acc.maxSize, max.Height)
                      ELSE IF HasHeightForWidth(it) /\ "GrowableVert" \notin flags
                      THEN min
                      ELSE IF pref.Height > 0 /\ "GrowableVert" \notin flags
                      THEN maxPixel(acc.maxSize, pref.Height)
                      ELSE 32768,
                  hasGreedySpacer |-> acc.hasGreedySpacer \/ (greedy /\ items[it].spacer),
                  hasGreedyNonSpacer |->
                      acc.hasGreedyNonSpacer \/ (greedy /\ ~items[it].spacer)]

RECURSIVE scanSection(_, _, _, _, _, _)
\* The cells of section i (0-based) from other-axis index j on, in order.
scanSection(snap, orientation, ws, i, j, acc) ==
    LET otherAxisCount == IF orientation = Horizontal
                          THEN Len(snap.rowStretchFactors)
                          ELSE Len(snap.columnStretchFactors)
    IN  IF j >= otherAxisCount THEN acc
        ELSE LET it == IF orientation = Horizontal
                       THEN snap.cells[j + 1][i + 1].item
                       ELSE snap.cells[i + 1][j + 1].item
             IN  IF it = NoItem \/ ~shouldLayoutItem(it)
                 THEN scanSection(snap, orientation, ws, i, j + 1, acc)
                 ELSE scanSection(snap, orientation, ws, i, j + 1,
                                  visitItem(snap, orientation, ws, it, acc))

StretchFactorsOf(snap, orientation) ==
    IF orientation = Horizontal THEN snap.columnStretchFactors ELSE snap.rowStretchFactors

\* sortedSections before the sort: one gridLayoutSectionInfo per section.
sectionInfos(snap, orientation, ws) ==
    LET stretchFactors == StretchFactorsOf(snap, orientation)
    IN  [k \in 1..Len(stretchFactors) |->
            LET acc == scanSection(snap, orientation, ws, k - 1, 0,
                           [minSize |-> 0, maxSize |-> 0,
                            hasGreedySpacer |-> FALSE, hasGreedyNonSpacer |-> FALSE])
            IN  [index |-> k - 1,
                 minSize |-> acc.minSize,
                 maxSize |-> acc.maxSize,
                 stretch |-> maxi(1, stretchFactors[k]),
                 hasGreedyNonSpacer |-> acc.hasGreedyNonSpacer,
                 hasGreedySpacer |-> acc.hasGreedySpacer]]

\* Less with the smaller minimum size first.
Less_SmallerMinFirst(a, b) ==
    IF a.hasGreedyNonSpacer = b.hasGreedyNonSpacer
    THEN IF a.hasGreedySpacer = b.hasGreedySpacer
         THEN IF a.minSize - b.minSize = 0
              THEN (a.maxSize \div a.stretch) < (b.maxSize \div b.stretch)
              ELSE a.minSize - b.minSize < 0
         ELSE a.hasGreedySpacer
    ELSE a.hasGreedyNonSpacer

\* gridLayoutSectionInfoList.Less
Less(a, b) ==
    IF a.hasGreedyNonSpacer = b.hasGreedyNonSpacer
    THEN IF a.hasGreedySpacer = b.hasGreedySpacer
         THEN IF a.minSize - b.minSize = 0
              THEN (a.maxSize \div a.stretch) < (b.maxSize \div b.stretch)
              ELSE a.minSize - b.minSize > 0
         ELSE a.hasGreedySpacer
    ELSE a.hasGreedyNonSpacer

\* sort.Stable: a section comes before another if it is Less, or if neither
\* is Less than the other and it came first.
sortStable(infos) ==
    LET n == Len(infos)
        before(k) == {m \in 1..n : Less(infos[m], infos[k])
                                      \/ (~Less(infos[k], infos[m]) /\ m < k)}
    IN  [q \in 1..n |-> infos[CHOOSE k \in 1..n : Cardinality(before(k)) = q - 1]]

\* TierOf with the sections of a greedy spacer among the others.
TierOf_SpacerNotGreedy(info) ==
    IF info.hasGreedyNonSpacer THEN 0 ELSE 2

\* The tier of a section: 0 with a greedy non-spacer, 1 with a greedy spacer
\* only, 2 otherwise.
TierOf(info) ==
    IF info.hasGreedyNonSpacer THEN 0 ELSE IF info.hasGreedySpacer THEN 1 ELSE 2

RECURSIVE SumOver(_, _)
SumOver(f, S) ==
    IF S = {} THEN 0
    ELSE LET x == CHOOSE y \in S : TRUE IN f[x] + SumOver(f, S \ {x})

\* Pixel(x / y) for a float64 quotient of integers: rounded towards zero.
Truncated(x, y) == IF x >= 0 THEN x \div y ELSE -((-x) \div y)

\* The margins of the axis, in pixels.
NearFarMargins(snap, orientation) ==
    LET marginsPixels == MarginsFrom96DPI(snap.margins, snap.dpi)
    IN  IF orientation = Horizontal
        THEN marginsPixels.HNear + marginsPixels.HFar
        ELSE marginsPixels.VNear + marginsPixels.VFar

\* spacingRemaining with one spacing for every section that has a maximum size.
spacingTotal_OnePerSection(snap, infos) ==
    LET spacingPixels == IntFrom96DPI(snap.spacing, snap.dpi)
    IN  Cardinality({k \in 1..Len(infos) : infos[k].maxSize > 0}) * spacingPixels

\* spacingRemaining before the distribution: one spacing per section whose
\* maximum size is not 0, less one.
spacingTotal(snap, infos) ==
    LET spacingPixels == IntFrom96DPI(snap.spacing, snap.dpi)
        all == Cardinality({k \in 1..Len(infos) : infos[k].maxSize > 0}) * spacingPixels
    IN  IF all > 0 THEN all - spacingPixels ELSE all

RECURSIVE distribute_NoUpperClamp(_, _, _, _, _, _)
\* The distribution without the clamp to the section's maximum size.
distribute_NoUpperClamp(snap, stretchFactors, sorted, totals, q, st) ==
    IF q > Len(sorted) THEN st.sizes
    ELSE
      LET info == sorted[q]
          k == info.index
          tier == TierOf(info)
          remaining == IF q = 1 \/ TierOf(sorted[q - 1]) # tier
                       THEN totals[tier] ELSE st.stretchFactorsRemaining
          stretch == stretchFactors[k + 1]
          min == info.minSize
          max == info.maxSize
          excessSpace == st.space - st.minSizesRemaining - st.spacingRemaining
          spacingPixels == IntFrom96DPI(snap.spacing, snap.dpi)
          grown == min + Truncated(excessSpace * stretch, remaining)
          sized == IF min < max
                   THEN IF grown < min THEN min ELSE grown
                   ELSE min
      IN  distribute_NoUpperClamp(snap, stretchFactors, sorted, totals, q + 1,
              [space |-> st.space - (sized + spacingPixels),
               minSizesRemaining |-> st.minSizesRemaining - min,
               spacingRemaining |-> st.spacingRemaining - spacingPixels,
               stretchFactorsRemaining |-> remaining - stretch,
               sizes |-> [st.sizes EXCEPT ![k + 1] = sized]])

RECURSIVE distribute(_, _, _, _, _, _)
(***************************************************************************)
(* sectionSizesForSpace, last loop, from the q-th sorted section on.  st    *)
(* holds space, minSizesRemaining, spacingRemaining, the tier's             *)
(* stretchFactorsRemaining and the sizes assigned so far.                   *)
(***************************************************************************)
distribute(snap, stretchFactors, sorted, totals, q, st) ==
    IF q > Len(sorted) THEN st.sizes
    ELSE
      LET info == sorted[q]
          k == info.index
          tier == TierOf(info)
          \* the first section of a tier starts from the tier's total
          remaining == IF q = 1 \/ TierOf(sorted[q - 1]) # tier
                       THEN totals[tier] ELSE st.stretchFactorsRemaining
          stretch == stretchFactors[k + 1]
          min == info.minSize
          max == info.maxSize
          excessSpace == st.space - st.minSizesRemaining - st.spacingRemaining
          spacingPixels == IntFrom96DPI(snap.spacing, snap.dpi)
          grown == min + Truncated(excessSpace * stretch, remaining)
          sized == IF min < max
                   THEN IF grown < min THEN min ELSE IF grown > max THEN max ELSE grown
                   ELSE min
      IN  distribute(snap, stretchFactors, sorted, totals, q + 1,
              [space |-> st.space - (sized + spacingPixels),
               minSizesRemaining |-> st.minSizesRemaining - min,
               spacingRemaining |-> st.spacingRemaining - spacingPixels,
               stretchFactorsRemaining |-> remaining - stretch,
               sizes |-> [st.sizes EXCEPT ![k + 1] = sized]])

\* sectionSizesForSpace distributing the whole space, margins included.
sectionSizesForSpace_IgnoresMargins(snap, orientation, space, ws) ==
    LET stretchFactors == StretchFactorsOf(snap, orientation)
        infos == sectionInfos(snap, orientation, ws)
        sections == 1..Len(stretchFactors)
        totals == [t \in 0..2 |->
                      SumOver(stretchFactors, {k \in sections : TierOf(infos[k]) = t})]
    IN  distribute(snap, stretchFactors, sortStable(infos), totals, 1,
            [space |-> space,
             minSizesRemaining |-> SumOver([k \in sections |-> infos[k].minSize], sections),
             spacingRemaining |-> spacingTotal(snap, infos),
             stretchFactorsRemaining |-> 0,
             sizes |-> [k \in sections |-> 0]])

sectionSizesForSpace(snap, orientation, space, ws) ==
    LET stretchFactors == StretchFactorsOf(snap, orientation)
        infos == sectionInfos(snap, orientation, ws)
        sections == 1..Len(stretchFactors)
        totals == [t \in 0..2 |->
                      SumOver(stretchFactors, {k \in sections : TierOf(infos[k]) = t})]
    IN  distribute(snap, stretchFactors, sortStable(infos), totals, 1,
            [space |-> space - NearFarMargins(snap, orientation),
             minSizesRemaining |-> SumOver([k \in sections |-> infos[k].minSize], sections),
             spacingRemaining |-> spacingTotal(snap, infos),
             stretchFactorsRemaining |-> 0,
             sizes |-> [k \in sections |-> 0]])

(***************************************************************************)
(* The size computation on a snapshot.  The grids are those the            *)
(* configuration calls build: a range for w1, perhaps one for w2 (it may    *)
(* overlap the first), a stretch factor for row 0 and one for column 0.     *)
(***************************************************************************)
Margins(hNear, vNear, hFar, vFar) ==
    [HNear |-> hNear, VNear |-> vNear, HFar |-> hFar, VFar |-> vFar]

\* The layout's margins and spacing at 96 dpi with the dpi of the context:
\* those NewGridLayout sets, at two resolutions, and margins that differ on
\* every side with no spacing.
LayoutSettings ==
    {[margins |-> Margins(9, 9, 9, 9), spacing |-> 6, dpi |-> 96],
     [margins |-> Margins(9, 9, 9, 9), spacing |-> 6, dpi |-> 144],
     [margins |-> Margins(1, 2, 3, 4), spacing |-> 0, dpi |-> 96]}

\* The client sizes a layout is computed for.
ClientSizes == {Size(0, 0), Size(70, 30), Size(220, 120)}

ValidRectangles == {r \in Rectangles : r.X >= 0 /\ r.Y >= 0 /\ r.Width >= 1 /\ r.Height >= 1}

NoRectangle == [X |-> 0, Y |-> 0, Width |-> 0, Height |-> 0]

\* The grid model after SetRange(w1, r1), SetRange(w2, r2) unless r2 is
\* NoRectangle, SetRowStretchFactor(0, rowFactor) and
\* SetColumnStretchFactor(0, columnFactor) on a new GridLayout.
Configured(r1, r2, rowFactor, columnFactor) ==
    LET first == SetRangeCall(NewGridLayout, TheContainer, "w1", r1).l
        second == IF r2 = NoRectangle THEN first
                  ELSE SetRangeCall(first, TheContainer, "w2", r2).l
        third == SetRowStretchFactorCall(second, TheContainer, 0, rowFactor).l
    IN  SetColumnStretchFactorCall(third, TheContainer, 0, columnFactor).l

ConfiguredGrids ==
    {Configured(r1, r2, rowFactor, columnFactor) :
        r1 \in ValidRectangles, r2 \in ValidRectangles \cup {NoRectangle},
        rowFactor \in 1..MaxFactor, columnFactor \in 1..MaxFactor}

SizesInit ==
    \E l \in ConfiguredGrids, settings \in LayoutSettings :
        /\ container = TheContainer
        /\ rowStretchFactors = l.rowStretchFactors
        /\ columnStretchFactors = l.columnStretchFactors
        /\ widgetBase2Info = l.widgetBase2Info
        /\ cells = l.cells
        /\ lastCall = [op |-> "CreateLayoutItem", err |-> NoError, layoutRequests |-> 0]
        /\ lastRange = [wb \in Widgets |-> Range(l, TheContainer, wb)]
        /\ calls = 0
        /\ \E kinds \in [Referenced(l) -> ItemKinds] :
               items = [wb \in Widgets |->
                           IF wb \in Referenced(l) THEN kinds[wb] ELSE NotCreated]
        /\ \E orphan \in (IF Orphans(l) = {} THEN {NoWidget} ELSE Orphans(l)) :
               li = CreateLayoutItem(l, orphan, settings.margins, settings.spacing,
                                     settings.dpi)
        /\ NoRun
        /\ NoCalls
        /\ NoResults
        /\ pc = "snapshot"
        /\ size = Size(0, 0)
        /\ widths = <<>>
        /\ heights = <<>>

\* widths := li.sectionSizesForSpace(Horizontal, ClientSize.Width, nil)
HorizontalSectionSizes(clientSize) ==
    /\ pc = "snapshot"
    /\ size' = clientSize
    /\ widths' = sectionSizesForSpace(li, Horizontal, clientSize.Width, <<>>)
    /\ pc' = "widths"
    /\ UNCHANGED <<performVars, gridVars, sortVars, minSizeVars, items, li, heights>>

\* heights := li.sectionSizesForSpace(Vertical, ClientSize.Height, widths)
VerticalSectionSizes ==
    /\ pc = "widths"
    /\ heights' = sectionSizesForSpace(li, Vertical, size.Height, widths)
    /\ pc' = "heights"
    /\ UNCHANGED <<performVars, gridVars, sortVars, minSizeVars, items, li, size, widths>>

SizesNext ==
    \/ \E clientSize \in ClientSizes : HorizontalSectionSizes(clientSize)
    \/ VerticalSectionSizes

SpecSizes == SizesInit /\ [][SizesNext]_vars

(***************************************************************************)
(* One run of sectionSizesForSpace from the end of its first loop,         *)
(* followed step by step: the sort, then one step per section of the        *)
(* distribution loop.  The run starts from the sections the first loop      *)
(* can leave behind, three of them, each with a stretch factor:             *)
(*   EmptySection        no laid-out item                                   *)
(*   ZoomSection         an ImageView that is not in ideal mode             *)
(*   ZoomSpacerSection   such an ImageView and an HSpacer                   *)
(*   WideZoomSection     such an ImageView with a margin of 10              *)
(*   CappedZoomSection   such an ImageView with a maximum size of 40        *)
(*   SpacerSection       an HSpacer                                         *)
(*   PlainSection        a growable widget of minimum size 50               *)
(*   FixedSection        an ImageView in ideal mode with a 30x30 image      *)
(***************************************************************************)
MaxSections == 3

Found(minSize, maxSize, hasGreedyNonSpacer, hasGreedySpacer) ==
    [minSize |-> minSize, maxSize |-> maxSize,
     hasGreedyNonSpacer |-> hasGreedyNonSpacer, hasGreedySpacer |-> hasGreedySpacer]

EmptySection == Found(0, 0, FALSE, FALSE)
ZoomSection == Found(1, 32768, TRUE, FALSE)
ZoomSpacerSection == Found(1, 32768, TRUE, TRUE)
WideZoomSection == Found(21, 32768, TRUE, FALSE)
CappedZoomSection == Found(1, 40, TRUE, FALSE)
SpacerSection == Found(0, 32768, FALSE, TRUE)
PlainSection == Found(50, 32768, FALSE, FALSE)
FixedSection == Found(30, 30, FALSE, FALSE)

SectionKinds ==
    {EmptySection, ZoomSection, ZoomSpacerSection, WideZoomSection, CappedZoomSection,
     SpacerSection, PlainSection, FixedSection}

\* The spaces a run distributes.
Spaces == {0, 75, 220}

\* The locals at line 784, the first loop done, for sections found[k] with
\* stretch factors factors[k].
AfterFirstLoop(found, factors, space) ==
    LET sections == 1..Len(factors)
        tierTotal(t) == SumOver(factors, {k \in sections : TierOf(found[k]) = t})
    IN  [stretchFactors |-> factors,
         sectionCountWithGreedyNonSpacer |->
             Cardinality({k \in sections : found[k].hasGreedyNonSpacer}),
         sectionCountWithGreedySpacer |->
             Cardinality({k \in sections :
                             ~found[k].hasGreedyNonSpacer /\ found[k].hasGreedySpacer}),
         stretchFactorsTotal |-> <<tierTotal(0), tierTotal(1), tierTotal(2)>>,
         minSizesRemaining |-> SumOver([k \in sections |-> found[k].minSize], sections),
         maxSizes |-> [k \in sections |-> found[k].maxSize],
         sizes |-> [k \in sections |-> 0],
         space |-> space,
         visited |-> <<>>]

RunInit ==
    \E found \in [1..MaxSections -> SectionKinds],
       factors \in [1..MaxSections -> 1..MaxFactor],
       space \in Spaces, settings \in LayoutSettings :
        /\ container = NoContainer
        /\ rowStretchFactors = NewGridLayout.rowStretchFactors
        /\ columnStretchFactors = NewGridLayout.columnStretchFactors
        /\ widgetBase2Info = NewGridLayout.widgetBase2Info
        /\ cells = NewGridLayout.cells
        /\ lastCall = [op |-> "NewGridLayout", err |-> NoError, layoutRequests |-> 0]
        /\ lastRange = [wb \in Widgets |-> NotFound]
        /\ calls = 0
        /\ items = [wb \in Widgets |-> NotCreated]
        /\ li = [cells |-> <<>>, margins |-> settings.margins,
                 spacing |-> settings.spacing, dpi |-> settings.dpi]
        /\ size = Size(0, 0)
        /\ widths = <<>>
        /\ heights = <<>>
        /\ sortedSections =
               [k \in 1..MaxSections |->
                   [index |-> k - 1,
                    minSize |-> found[k].minSize,
                    maxSize |-> found[k].maxSize,
                    stretch |-> maxi(1, factors[k]),
                    hasGreedyNonSpacer |-> found[k].hasGreedyNonSpacer,
                    hasGreedySpacer |-> found[k].hasGreedySpacer]]
        /\ loop = AfterFirstLoop(found, factors, space)
        /\ NoCalls
        /\ NoResults
        /\ pc = "sort"

\* counts and offsets of the three tiers.
counts(run) ==
    <<run.sectionCountWithGreedyNonSpacer,
      run.sectionCountWithGreedySpacer,
      Len(run.stretchFactors) - run.sectionCountWithGreedyNonSpacer
          - run.sectionCountWithGreedySpacer>>

offsets(run) ==
    <<0,
      run.sectionCountWithGreedyNonSpacer,
      run.sectionCountWithGreedyNonSpacer + run.sectionCountWithGreedySpacer>>

RECURSIVE firstTierFrom(_, _)
\* The first tier from i on (0-based) that has a section, 3 if none has.
firstTierFrom(run, i) ==
    IF i >= 3 THEN 3
    ELSE IF counts(run)[i + 1] > 0 THEN i
    ELSE firstTierFrom(run, i + 1)

\* Lines 786-811: the sort, the margins, the spacing, and the entry into the
\* loops, up to the first section to assign.
SortSections ==
    /\ pc = "sort"
    /\ sortedSections' = sortStable(sortedSections)
    /\ LET spacingPixels == IntFrom96DPI(li.spacing, li.dpi)
           all == Cardinality({k \in 1..Len(loop.maxSizes) : loop.maxSizes[k] > 0})
                      * spacingPixels
           i == firstTierFrom(loop, 0)
       IN  loop' = [stretchFactors |-> loop.stretchFactors,
                    sectionCountWithGreedyNonSpacer |-> loop.sectionCountWithGreedyNonSpacer,
                    sectionCountWithGreedySpacer |-> loop.sectionCountWithGreedySpacer,
                    stretchFactorsTotal |-> loop.stretchFactorsTotal,
                    minSizesRemaining |-> loop.minSizesRemaining,
                    maxSizes |-> loop.maxSizes,
                    sizes |-> loop.sizes,
                    space |-> loop.space - NearFarMargins(li, Horizontal),
                    visited |-> loop.visited,
                    spacingRemaining |-> IF all > 0 THEN all - spacingPixels ELSE all,
                    i |-> i,
                    j |-> 0,
                    stretchFactorsRemaining |->
                        IF i < 3 THEN loop.stretchFactorsTotal[i + 1] ELSE 0]
    /\ pc' = "distribute"
    /\ UNCHANGED <<performVars, gridVars, minSizeVars, items, li, size, widths, heights>>

\* Lines 813-840: one pass of the inner loop, for sortedSections[offsets[i]+j],
\* and the move to the next section to assign.
AssignSection ==
    /\ pc = "distribute"
    /\ loop.i < 3
    /\ LET info == sortedSections[offsets(loop)[loop.i + 1] + loop.j + 1]
           k == info.index
           stretch == loop.stretchFactors[k + 1]
           min == info.minSize
           max == info.maxSize
           spacingPixels == IntFrom96DPI(li.spacing, li.dpi)
           excessSpace == loop.space - loop.minSizesRemaining - loop.spacingRemaining
           grown == min + Truncated(excessSpace * stretch, loop.stretchFactorsRemaining)
           sized == IF min < max
                    THEN IF grown < min THEN min ELSE IF grown > max THEN max ELSE grown
                    ELSE min
           more == loop.j + 1 < counts(loop)[loop.i + 1]
           i == IF more THEN loop.i ELSE firstTierFrom(loop, loop.i + 1)
       IN  loop' = [loop EXCEPT
                       !.sizes[k + 1] = sized,
                       !.visited = Append(@, k),
                       !.minSizesRemaining = @ - min,
                       !.space = @ - (sized + spacingPixels),
                       !.spacingRemaining = @ - spacingPixels,
                       !.i = i,
                       !.j = IF more THEN @ + 1 ELSE 0,
                       !.stretchFactorsRemaining =
                           IF more THEN @ - stretch
                           ELSE IF i < 3 THEN loop.stretchFactorsTotal[i + 1] ELSE 0]
    /\ UNCHANGED <<performVars, gridVars, layoutVars, minSizeVars, sortedSections>>

\* Line 843: return sizes.
ReturnSizes ==
    /\ pc = "distribute"
    /\ loop.i >= 3
    /\ pc' = "returned"
    /\ widths' = loop.sizes
    /\ UNCHANGED <<performVars, gridVars, sortVars, minSizeVars, items, li, size, heights>>

RunNext == SortSections \/ AssignSection \/ ReturnSizes

SpecRun == RunInit /\ [][RunNext]_vars

(***************************************************************************)
(* Properties of sectionSizesForSpace.                                     *)
(***************************************************************************)
\* What a call of sectionSizesForSpace returned and worked with.
Sections(orientation) == 1..Len(StretchFactorsOf(li, orientation))
Returned(orientation) == IF orientation = Horizontal THEN widths ELSE heights
Computed(orientation) ==
    IF orientation = Horizontal THEN pc \in {"widths", "heights"} ELSE pc = "heights"
Requested(orientation) == IF orientation = Horizontal THEN size.Width ELSE size.Height
InfosOf(orientation) == sectionInfos(li, orientation, widths)

\* The sum of the resolved sizes plus one spacing between the sections whose
\* maximum size is not 0.
Occupied(orientation) ==
    SumOver(Returned(orientation), Sections(orientation))
        + spacingTotal(li, InfosOf(orientation))

Available(orientation) == Requested(orientation) - NearFarMargins(li, orientation)

\* The sum of the sections' minimum sizes plus the same spacing.
MinimumNeeded(orientation) ==
    SumOver([k \in Sections(orientation) |-> InfosOf(orientation)[k].minSize],
            Sections(orientation))
        + spacingTotal(li, InfosOf(orientation))

\* C10 (as stated): for every grid and every requested space, the sum of the
\* sizes sectionSizesForSpace returns plus the spacing between the sections
\* with a maximum size other than 0 does not exceed the requested space minus
\* the margins of the axis.
C10_SizesNeverExceedSpace ==
    \A orientation \in {Horizontal, Vertical} :
        Computed(orientation) => Occupied(orientation) <= Available(orientation)

\* C10 (amended): the same, for a requested space that, minus the margins, is
\* at least the sum of the sections' minimum sizes plus that spacing.
C10_SizesFitSufficientSpace ==
    \A orientation \in {Horizontal, Vertical} :
        Computed(orientation) /\ MinimumNeeded(orientation) <= Available(orientation)
            => Occupied(orientation) <= Available(orientation)

\* C10 witness: both axes are computed, the width suffices and is shared by
\* two columns that both grew beyond their minimum, with spacing between them.
C10_Witness ==
    /\ pc = "heights"
    /\ MinimumNeeded(Horizontal) < Available(Horizontal)
    /\ spacingTotal(li, InfosOf(Horizontal)) > 0
    /\ Cardinality({k \in Sections(Horizontal) :
                       widths[k] > InfosOf(Horizontal)[k].minSize}) >= 2
    /\ Occupied(Horizontal) <= Available(Horizontal)

\* C11 (as stated): every section size sectionSizesForSpace returns lies in
\* the closed interval from the section's minimum size to its maximum size.
C11_SizesWithinMinMax ==
    \A orientation \in {Horizontal, Vertical} :
        Computed(orientation) =>
            \A k \in Sections(orientation) :
                /\ InfosOf(orientation)[k].minSize <= Returned(orientation)[k]
                /\ Returned(orientation)[k] <= InfosOf(orientation)[k].maxSize

\* C11 (amended): every section size is at least the section's minimum size,
\* and at most its maximum size where the minimum is not above the maximum;
\* a section whose minimum is above its maximum gets its minimum.
C11_SizesClampedWhereMinBelowMax ==
    \A orientation \in {Horizontal, Vertical} :
        Computed(orientation) =>
            \A k \in Sections(orientation) :
                LET info == InfosOf(orientation)[k]
                    sized == Returned(orientation)[k]
                IN  /\ info.minSize <= sized
                    /\ info.minSize <= info.maxSize => sized <= info.maxSize
                    /\ info.minSize > info.maxSize => sized = info.minSize

\* C11 witness: widths are computed, one column was cut down to its maximum
\* size while another column grew to a size between its minimum and maximum.
C11_Witness ==
    /\ pc \in {"widths", "heights"}
    /\ \E k \in Sections(Horizontal) :
           LET info == InfosOf(Horizontal)[k]
           IN  info.minSize < info.maxSize /\ widths[k] = info.maxSize
    /\ \E k \in Sections(Horizontal) :
           LET info == InfosOf(Horizontal)[k]
           IN  info.minSize < widths[k] /\ widths[k] < info.maxSize

\* The items in the cells of column k (0-based) of the snapshot.
ItemsInColumn(k) == {li.cells[i][k + 1].item : i \in 1..Len(li.cells)} \ {NoItem}

\* The items in the cells of row k (0-based) of the snapshot.
ItemsInRow(k) == {li.cells[k + 1][j].item : j \in 1..Len(li.columnStretchFactors)} \ {NoItem}

\* Column k holds one item only: laid out, single-span, growable and not
\* greedy horizontally, with minimum width 50 and no maximum width.
HoldsGrowableOfMin50(k) ==
    \E it \in Widgets :
        /\ ItemsInColumn(k) = {it}
        /\ shouldLayoutItem(it)
        /\ li.item2Info[it].spanHorz = 1
        /\ "GrowableHorz" \in items[it].flags
        /\ "GreedyHorz" \notin items[it].flags
        /\ MinSizeEffectiveForChild(it).Width = 50
        /\ items[it].maxSize.Width = 0

\* The set-up of the example: width 220, margins 9/9, spacing 6, two columns
\* of stretch factor 1 with one such item each.
C12_Example ==
    /\ pc \in {"widths", "heights"}
    /\ size.Width = 220
    /\ MarginsFrom96DPI(li.margins, li.dpi).HNear = 9
    /\ MarginsFrom96DPI(li.margins, li.dpi).HFar = 9
    /\ IntFrom96DPI(li.spacing, li.dpi) = 6
    /\ li.columnStretchFactors = <<1, 1>>
    /\ HoldsGrowableOfMin50(0)
    /\ HoldsGrowableOfMin50(1)

\* C12: with container width 220, margins 9/9, spacing 6 and two columns of
\* stretch factor 1, each holding one single-span growable non-greedy item of
\* minimum width 50 and no maximum, the widths returned are 98 and 98.
C12_ExampleWidths == C12_Example => widths = <<98, 98>>

\* C12 witness: the example's set-up has been computed and gave 98 and 98.
C12_Witness == C12_Example /\ widths = <<98, 98>>

(***************************************************************************)
(* Properties of the order in which sectionSizesForSpace assigns sizes.    *)
(***************************************************************************)
\* Within a tier: larger minimum size first, then smaller integer quotient
\* maxSize / stretch, then lower index.
WithinTierBefore(a, b) ==
    \/ a.minSize > b.minSize
    \/ /\ a.minSize = b.minSize
       /\ \/ (a.maxSize \div a.stretch) < (b.maxSize \div b.stretch)
          \/ /\ (a.maxSize \div a.stretch) = (b.maxSize \div b.stretch)
             /\ a.index < b.index

\* The order as stated: by tier, then within the tier.
StatedBefore(a, b) ==
    \/ TierOf(a) < TierOf(b)
    \/ TierOf(a) = TierOf(b) /\ WithinTierBefore(a, b)

\* The same, but a section with a greedy spacer goes before the sections of
\* its tier without one.
SpacerFirstBefore(a, b) ==
    \/ TierOf(a) < TierOf(b)
    \/ /\ TierOf(a) = TierOf(b)
       /\ \/ a.hasGreedySpacer /\ ~b.hasGreedySpacer
          \/ a.hasGreedySpacer = b.hasGreedySpacer /\ WithinTierBefore(a, b)

\* The section indexes of the run in the order Before gives.
InOrder(Before(_, _)) ==
    LET n == Len(sortedSections)
        rank(k) == Cardinality({m \in 1..n : Before(sortedSections[m], sortedSections[k])})
    IN  [q \in 1..n |-> sortedSections[CHOOSE k \in 1..n : rank(k) = q - 1].index]

\* The section of the run with index k (0-based).
SectionOfIndex(k) ==
    sortedSections[CHOOSE m \in 1..Len(sortedSections) : sortedSections[m].index = k]

\* The space beyond the minimum sizes and the spacing the run started with,
\* from the locals of the returned run.
ExcessOfRun ==
    loop.space + SumOver(loop.sizes, 1..Len(loop.sizes))
        - SumOver([m \in 1..Len(sortedSections) |-> sortedSections[m].minSize],
                  1..Len(sortedSections))
        - loop.spacingRemaining

\* C13 (as stated): the sections are assigned their sizes tier by tier, and
\* within a tier with the larger minimum size first, then the smaller
\* quotient maxSize / stretch, then the lower index.
C13_OrderAsStated ==
    pc = "returned" => loop.visited = InOrder(StatedBefore)

\* C13 (amended): the sections are assigned their sizes tier by tier; within
\* a tier those with a greedy spacer first, then the larger minimum size
\* first, then the smaller quotient maxSize / stretch, then the lower index.
\* With space for all minimum sizes and spacing, a section below the first
\* tier gets more than its minimum only if the last section of the first tier
\* has reached its maximum.
C13_OrderSpacerFirst ==
    pc = "returned" =>
        /\ loop.visited = InOrder(SpacerFirstBefore)
        /\ \A p, q \in 1..Len(loop.visited) :
               TierOf(SectionOfIndex(loop.visited[p])) < TierOf(SectionOfIndex(loop.visited[q]))
                   => p < q
        /\ ExcessOfRun >= 0 /\ loop.sectionCountWithGreedyNonSpacer > 0 =>
               LET last == SectionOfIndex(loop.visited[loop.sectionCountWithGreedyNonSpacer])
               IN  (\E k \in 1..Len(loop.sizes) :
                        /\ TierOf(SectionOfIndex(k - 1)) > 0
                        /\ loop.sizes[k] > SectionOfIndex(k - 1).minSize)
                       => loop.sizes[last.index + 1] >= last.maxSize

\* C13 witness: a run has returned in which the first tier held a section
\* with a greedy spacer and one without but with a larger minimum size, and
\* the section with the spacer was assigned first.
C13_Witness ==
    /\ pc = "returned"
    /\ \E a, b \in 1..Len(sortedSections) :
           /\ TierOf(sortedSections[a]) = 0 /\ TierOf(sortedSections[b]) = 0
           /\ sortedSections[a].hasGreedySpacer /\ ~sortedSections[b].hasGreedySpacer
           /\ sortedSections[a].minSize < sortedSections[b].minSize
    /\ loop.visited = InOrder(SpacerFirstBefore)
    /\ loop.visited # InOrder(StatedBefore)

(***************************************************************************)
(* Properties of a column with a greedy spacer.                            *)
(***************************************************************************)
\* Column s holds only a spacer with zero size hint and the greedy
\* horizontal flag.
HoldsOnlyGreedySpacer(s) ==
    \E it \in Widgets :
        /\ ItemsInColumn(s) = {it}
        /\ shouldLayoutItem(it)
        /\ items[it].spacer
        /\ items[it].idealSize = Size(0, 0)
        /\ "GreedyHorz" \in items[it].flags

\* Column k holds items, all of them laid out, growable and not greedy
\* horizontally.
HoldsNonGreedyGrowables(k) ==
    /\ ItemsInColumn(k) # {}
    /\ \A it \in ItemsInColumn(k) :
           /\ shouldLayoutItem(it)
           /\ "GrowableHorz" \in items[it].flags
           /\ "GreedyHorz" \notin items[it].flags

\* The set-up of the claim, with s the spacer's column.
SpacerAmongGrowables(s) ==
    /\ pc \in {"widths", "heights"}
    /\ HoldsOnlyGreedySpacer(s)
    /\ \A k \in Sections(Horizontal) \ {s + 1} : HoldsNonGreedyGrowables(k - 1)
    /\ \A k \in Sections(Horizontal) :
           li.columnStretchFactors[k] = li.columnStretchFactors[s + 1]

SpacerIsSingleSpan(s) ==
    \A it \in ItemsInColumn(s) : li.item2Info[it].spanHorz = 1

MaxOf(S) == IF S = {} THEN 0 ELSE CHOOSE x \in S : \A y \in S : y <= x

\* ws with the items of every span.
minWidths_AnySpan(snap) ==
    [col \in 1..Len(snap.cells[1]) |->
        MaxOf({MinSizeEffectiveForChild(snap.cells[row][col].item).Width :
                  row \in {r \in 1..Len(snap.cells) :
                              LET item == snap.cells[r][col].item
                              IN  /\ item # NoItem
                                  /\ shouldLayoutItem(item)}})]

\* Lines 404-424: ws, the minimum width of every column.
minWidths(snap) ==
    [col \in 1..Len(snap.cells[1]) |->
        MaxOf({MinSizeEffectiveForChild(snap.cells[row][col].item).Width :
                  row \in {r \in 1..Len(snap.cells) :
                              LET item == snap.cells[r][col].item
                              IN  /\ item # NoItem
                                  /\ shouldLayoutItem(item)
                                  /\ snap.item2Info[item].spanHorz = 1}})]

\* Lines 435-464 for one cell: "skip" for a cell that adds no height, "task"
\* for an item with height for width, "height" for another item.
cellVisit(snap, row, col) ==
    LET item == snap.cells[row + 1][col + 1].item
    IN  IF item = NoItem THEN "skip"
        ELSE IF ~shouldLayoutItem(item) THEN "skip"
        ELSE IF snap.item2Info[item].spanVert # 1 THEN "skip"
        ELSE IF HasHeightForWidth(item) THEN "task"
        ELSE "height"

\* The height a visited cell contributes to its row.
cellHeight(snap, ws, row, col) ==
    LET item == snap.cells[row + 1][col + 1].item
    IN  IF HasHeightForWidth(item)
        THEN HeightForWidth(item, spannedWidth(snap, snap.item2Info[item], ws))
        ELSE MinSizeEffectiveForChild(item).Height

RECURSIVE sumFrom(_, _, _)
\* Lines 478-493 from index i on (0-based): every size above 0, and the
\* spacing before it unless its index is 0.
sumFrom(sizes, spacingPixels, i) ==
    IF i >= Len(sizes) THEN 0
    ELSE (IF sizes[i + 1] > 0
          THEN (IF i > 0 THEN spacingPixels ELSE 0) + sizes[i + 1]
          ELSE 0)
         + sumFrom(sizes, spacingPixels, i + 1)

\* Lines 472-493: the size MinSizeForSize returns for ws and heights.
minSizeOf(snap, ws, hs) ==
    LET marginsPixels == MarginsFrom96DPI(snap.margins, snap.dpi)
        spacingPixels == IntFrom96DPI(snap.spacing, snap.dpi)
    IN  Size(marginsPixels.HNear + marginsPixels.HFar + sumFrom(ws, spacingPixels, 0),
             marginsPixels.VNear + marginsPixels.VFar + sumFrom(hs, spacingPixels, 0))

\* Lines 429-470 run to the end: the height of every row.
rowHeights(snap, sizes) ==
    [row \in 1..Len(snap.rowStretchFactors) |->
        MaxOf({cellHeight(snap, sizes, row - 1, col - 1) :
                  col \in {c \in 1..Len(sizes) : cellVisit(snap, row - 1, c - 1) # "skip"}})]

\* What MinSizeForSize computes for a size that is not in the map.
MinSizeForSize(snap, candidate) ==
    IF Len(snap.cells) = 0 THEN Size(0, 0)
    ELSE minSizeOf(snap, minWidths(snap),
                   rowHeights(snap, sectionSizesForSpace(snap, Horizontal,
                                                         candidate.Width, <<>>)))

(***************************************************************************)
(* Callers of MinSizeForSize on one snapshot, step by step.  A caller's     *)
(* locals are ws, widths, heights, row, col and, for every row (each pass   *)
(* of the row loop declares its own), wg, mutex and maxHeight, here wg,     *)
(* rowMutex and maxHeight indexed by the row.  tasks are the goroutines     *)
(* started and not yet finished, each with the row and column of its item,  *)
(* its position and its local height; tmp is the value of maxHeight read    *)
(* for maxPixel(maxHeight, height).                                         *)
(***************************************************************************)
\* The candidate sizes callers ask for.
CandidateSizes == {Size(70, 30), Size(220, 120)}

\* The margins NewGridLayout sets, and no margins.
MinSizeSettings ==
    {[margins |-> Margins(9, 9, 9, 9), spacing |-> 6, dpi |-> 96],
     [margins |-> Margins(0, 0, 0, 0), spacing |-> 6, dpi |-> 96]}

\* The kinds of items in the grids MinSizeForSize is followed on.
MinSizeKinds == {Label, Growable, HSpacer}

\* The grids MinSizeForSize is followed on: the new GridLayout, and the
\* configured grids whose stretch factors are all 1 and whose widgets all
\* have cells.
MinSizeGrids ==
    {NewGridLayout} \cup
    {l \in ConfiguredGrids :
        /\ Orphans(l) = {}
        /\ \A k \in 1..Len(l.rowStretchFactors) : l.rowStretchFactors[k] = 1
        /\ \A k \in 1..Len(l.columnStretchFactors) : l.columnStretchFactors[k] = 1}

MinSizeInit ==
    \E l \in MinSizeGrids, settings \in MinSizeSettings :
        /\ container = TheContainer
        /\ rowStretchFactors = l.rowStretchFactors
        /\ columnStretchFactors = l.columnStretchFactors
        /\ widgetBase2Info = l.widgetBase2Info
        /\ cells = l.cells
        /\ lastCall = [op |-> "CreateLayoutItem", err |-> NoError, layoutRequests |-> 0]
        /\ lastRange = [wb \in Widgets |-> Range(l, TheContainer, wb)]
        /\ calls = 0
        /\ \E kinds \in [Referenced(l) -> MinSizeKinds] :
               items = [wb \in Widgets |->
                           IF wb \in Referenced(l) THEN kinds[wb] ELSE NotCreated]
        /\ \E orphan \in (IF Orphans(l) = {} THEN {NoWidget} ELSE Orphans(l)) :
               li = CreateLayoutItem(l, orphan, settings.margins, settings.spacing,
                                     settings.dpi)
        /\ NoRun
        /\ NoCalls
        /\ NoResults
        /\ pc = "snapshot"
        /\ size = Size(0, 0)
        /\ widths = <<>>
        /\ heights = <<>>

\* Who holds the mutex of a row.
Nobody == [by |-> "nobody", col |-> 0]
Main == [by |-> "main", col |-> 0]
Task(col) == [by |-> "task", col |-> col]

\* The caller after its return.
Done(candidate, result, hit, computed) ==
    [pc |-> "done", size |-> candidate, result |-> result, hit |-> hit,
     computed |-> computed]

\* callers with the locals of caller c changed to locals.
With(c, locals) == [callers EXCEPT ![c] = locals]

\* Lines 392-395: the call, and its return for a snapshot without cells.
Call(c, candidate) ==
    /\ callers[c].pc = "idle"
    /\ callers' = With(c, IF Len(li.cells) = 0
                          THEN Done(candidate, Size(0, 0), FALSE, FALSE)
                          ELSE [pc |-> "lock", size |-> candidate])
    /\ UNCHANGED <<performVars, gridVars, layoutVars, sortVars, mutex, size2MinSize>>

\* A mutex that any caller gets at any time.
canLock_Always(m) == TRUE

\* Line 397: Lock returns when no caller holds the mutex.
canLock(m) == m = Unlocked

\* Line 397: li.mutex.Lock()
Lock(c) ==
    /\ callers[c].pc = "lock"
    /\ canLock(mutex)
    /\ mutex' = c
    /\ callers' = With(c, [callers[c] EXCEPT !.pc = "lookup"])
    /\ UNCHANGED <<performVars, gridVars, layoutVars, sortVars, size2MinSize>>

\* Lines 400-427: the look-up in the map; for a size without entry ws, widths
\* and heights, and the entry into the row loop.
Lookup(c) ==
    /\ callers[c].pc = "lookup"
    /\ LET candidate == callers[c].size
           found == {e \in size2MinSize : e.size = candidate}
       IN  IF found # {}
           THEN callers' = With(c, [pc |-> "unlock", size |-> candidate,
                                    result |-> (CHOOSE e \in found : TRUE).min,
                                    hit |-> TRUE, computed |-> FALSE])
           ELSE LET ws == minWidths(li)
                    ww == sectionSizesForSpace(li, Horizontal, candidate.Width, <<>>)
                    hh == sectionSizesForSpace(li, Vertical, candidate.Height, ww)
                IN  callers' = With(c, [pc |-> "columns", size |-> candidate,
                                        ws |-> ws, widths |-> ww, heights |-> hh,
                                        row |-> 0, col |-> 0,
                                        wg |-> [r \in 1..Len(hh) |-> 0],
                                        rowMutex |-> [r \in 1..Len(hh) |-> Nobody],
                                        maxHeight |-> [r \in 1..Len(hh) |-> 0],
                                        tasks |-> {}, height |-> 0, tmp |-> 0])
    /\ UNCHANGED <<performVars, gridVars, layoutVars, sortVars, mutex, size2MinSize>>

\* Lines 434-458: the cell in the next column of the row: skipped, or a
\* goroutine started for it, or its height taken.
VisitCell(c) ==
    LET my == callers[c]
    IN  /\ my.pc = "columns"
        /\ my.col < Len(my.widths)
        /\ LET visit == cellVisit(li, my.row, my.col)
           IN  callers' = With(c,
                   IF visit = "skip" THEN [my EXCEPT !.col = @ + 1]
                   ELSE IF visit = "task"
                   THEN [my EXCEPT !.wg[my.row + 1] = @ + 1,
                                   !.tasks = @ \cup {[row |-> my.row, col |-> my.col,
                                                      pc |-> "height", height |-> 0,
                                                      tmp |-> 0]},
                                   !.col = @ + 1]
                   ELSE [my EXCEPT !.height = cellHeight(li, my.widths, my.row, my.col),
                                   !.pc = "mainLock"])
        /\ UNCHANGED <<performVars, gridVars, layoutVars, sortVars, mutex, size2MinSize>>

\* Line 460: mutex.Lock()
MainLock(c) ==
    LET my == callers[c]
    IN  /\ my.pc = "mainLock"
        /\ my.rowMutex[my.row + 1] = Nobody
        /\ callers' = With(c, [my EXCEPT !.rowMutex[my.row + 1] = Main, !.pc = "mainRead"])
        /\ UNCHANGED <<performVars, gridVars, layoutVars, sortVars, mutex, size2MinSize>>

\* Line 461, the read of maxHeight.
MainRead(c) ==
    LET my == callers[c]
    IN  /\ my.pc = "mainRead"
        /\ callers' = With(c, [my EXCEPT !.tmp = my.maxHeight[my.row + 1],
                                         !.pc = "mainWrite"])
        /\ UNCHANGED <<performVars, gridVars, layoutVars, sortVars, mutex, size2MinSize>>

\* Line 461, the assignment to maxHeight.
MainWrite(c) ==
    LET my == callers[c]
    IN  /\ my.pc = "mainWrite"
        /\ callers' = With(c, [my EXCEPT !.maxHeight[my.row + 1] = maxPixel(my.tmp, my.height),
                                         !.pc = "mainUnlock"])
        /\ UNCHANGED <<performVars, gridVars, layoutVars, sortVars, mutex, size2MinSize>>

\* Line 462: mutex.Unlock(), and on to the next column.
MainUnlock(c) ==
    LET my == callers[c]
    IN  /\ my.pc = "mainUnlock"
        /\ callers' = With(c, [my EXCEPT !.rowMutex[my.row + 1] = Nobody,
                                         !.col = @ + 1,
                                         !.pc = "columns"])
        /\ UNCHANGED <<performVars, gridVars, layoutVars, sortVars, mutex, size2MinSize>>

\* A wait that returns at once.
Wait_NoBarrier(counter) == TRUE

\* Line 467: wg.Wait() returns when the counter of the WaitGroup is 0.
Wait(counter) == counter = 0

\* Lines 467-469: wg.Wait() and heights[row] = maxHeight, then the next row,
\* or the end of the row loop.
WaitRow(c) ==
    LET my == callers[c]
    IN  /\ my.pc = "columns"
        /\ my.col >= Len(my.widths)
        /\ Wait(my.wg[my.row + 1])
        /\ callers' = With(c,
               [my EXCEPT !.heights[my.row + 1] = my.maxHeight[my.row + 1],
                          !.row = @ + 1,
                          !.col = 0,
                          !.pc = IF my.row + 1 < Len(my.heights) THEN "columns" ELSE "sum"])
        /\ UNCHANGED <<performVars, gridVars, layoutVars, sortVars, mutex, size2MinSize>>

\* The goroutines of caller c.
TasksOf(c) == IF callers[c].pc \in {"columns", "mainLock", "mainRead", "mainWrite",
                                    "mainUnlock", "sum"}
              THEN callers[c].tasks ELSE {}

\* callers with task t of caller c changed to task u.
WithTask(c, t, u) ==
    With(c, [callers[c] EXCEPT !.tasks = (@ \ {t}) \cup {u}])

\* Line 449: height := hfw.HeightForWidth(li.spannedWidth(info, widths))
TaskHeight(c) ==
    \E t \in TasksOf(c) :
    /\ t.pc = "height"
    /\ callers' = WithTask(c, t, [t EXCEPT !.height = cellHeight(li, callers[c].widths,
                                                                 t.row, t.col),
                                          !.pc = "lock"])
    /\ UNCHANGED <<performVars, gridVars, layoutVars, sortVars, mutex, size2MinSize>>

\* Line 451: mutex.Lock()
TaskLock(c) ==
    \E t \in TasksOf(c) :
    /\ t.pc = "lock"
    /\ callers[c].rowMutex[t.row + 1] = Nobody
    /\ callers' = With(c, [callers[c] EXCEPT
                              !.rowMutex[t.row + 1] = Task(t.col),
                              !.tasks = (@ \ {t}) \cup {[t EXCEPT !.pc = "read"]}])
    /\ UNCHANGED <<performVars, gridVars, layoutVars, sortVars, mutex, size2MinSize>>

\* Line 452, the read of maxHeight.
TaskRead(c) ==
    \E t \in TasksOf(c) :
    /\ t.pc = "read"
    /\ callers' = WithTask(c, t, [t EXCEPT !.tmp = callers[c].maxHeight[t.row + 1],
                                          !.pc = "write"])
    /\ UNCHANGED <<performVars, gridVars, layoutVars, sortVars, mutex, size2MinSize>>

\* Line 452, the assignment to maxHeight.
TaskWrite(c) ==
    \E t \in TasksOf(c) :
    /\ t.pc = "write"
    /\ callers' = With(c, [callers[c] EXCEPT
                              !.maxHeight[t.row + 1] = maxPixel(t.tmp, t.height),
                              !.tasks = (@ \ {t}) \cup {[t EXCEPT !.pc = "unlock"]}])
    /\ UNCHANGED <<performVars, gridVars, layoutVars, sortVars, mutex, size2MinSize>>

\* Line 453: mutex.Unlock()
TaskUnlock(c) ==
    \E t \in TasksOf(c) :
    /\ t.pc = "unlock"
    /\ callers' = With(c, [callers[c] EXCEPT
                              !.rowMutex[t.row + 1] = Nobody,
                              !.tasks = (@ \ {t}) \cup {[t EXCEPT !.pc = "done"]}])
    /\ UNCHANGED <<performVars, gridVars, layoutVars, sortVars, mutex, size2MinSize>>

\* Line 455: wg.Done(), the end of the goroutine.
TaskDone(c) ==
    \E t \in TasksOf(c) :
    /\ t.pc = "done"
    /\ callers' = With(c, [callers[c] EXCEPT
                              !.wg[t.row + 1] = @ - 1,
                              !.tasks = @ \ {t}])
    /\ UNCHANGED <<performVars, gridVars, layoutVars, sortVars, mutex, size2MinSize>>

\* A map that never gets an entry.
store_Never(entries, candidate, min) == entries

\* Lines 495-497: li.size2MinSize[size] = minSize for a width and a height
\* above 0.
store(entries, candidate, min) ==
    IF min.Width > 0 /\ min.Height > 0
    THEN {e \in entries : e.size # candidate} \cup {[size |-> candidate, min |-> min]}
    ELSE entries

\* Lines 472-499: the sums, the entry in the map for a size with a width and
\* a height above 0, and the result.
Sum(c) ==
    LET my == callers[c]
        min == minSizeOf(li, my.ws, my.heights)
    IN  /\ my.pc = "sum"
        /\ size2MinSize' = store(size2MinSize, my.size, min)
        /\ callers' = With(c, [pc |-> "unlock", size |-> my.size, result |-> min,
                               hit |-> FALSE, computed |-> TRUE])
        /\ UNCHANGED <<performVars, gridVars, layoutVars, sortVars, mutex>>

\* Line 398: the deferred li.mutex.Unlock(), and the return.
Unlock(c) ==
    LET my == callers[c]
    IN  /\ my.pc = "unlock"
        /\ mutex' = Unlocked
        /\ callers' = With(c, Done(my.size, my.result, my.hit, my.computed))
        /\ UNCHANGED <<performVars, gridVars, layoutVars, sortVars, size2MinSize>>

MinSizeNext ==
    \E c \in Callers :
        \/ \E candidate \in CandidateSizes : Call(c, candidate)
        \/ Lock(c)
        \/ Lookup(c)
        \/ VisitCell(c)
        \/ MainLock(c)
        \/ MainRead(c)
        \/ MainWrite(c)
        \/ MainUnlock(c)
        \/ WaitRow(c)
        \/ TaskHeight(c)
        \/ TaskLock(c)
        \/ TaskRead(c)
        \/ TaskWrite(c)
        \/ TaskUnlock(c)
        \/ TaskDone(c)
        \/ Sum(c)
        \/ Unlock(c)

SpecMinSize == MinSizeInit /\ [][MinSizeNext]_vars

(***************************************************************************)
(* Claims on MinSizeForSize.                                                *)
(***************************************************************************)
\* Two callers that have returned from calls with the same candidate size.
ReturnedSame(c, d) ==
    /\ c # d
    /\ callers[c].pc = "done"
    /\ callers[d].pc = "done"
    /\ callers[c].size = callers[d].size

\* One of the two calls computed the result and the other one took it from
\* the map.
OneHit(c, d) ==
    \/ callers[c].computed /\ callers[d].hit
    \/ callers[d].computed /\ callers[c].hit

\* C15 as stated: two calls of MinSizeForSize with the same candidate size on
\* one snapshot return the same result, and only one of them computes it,
\* for every grid, those with a minimum width or height of 0 included.
C15_SecondCallNeverComputes ==
    \A c, d \in Callers :
        ReturnedSame(c, d)
            => /\ callers[c].result = callers[d].result
               /\ ~(callers[c].computed /\ callers[d].computed)

\* C15: two calls of MinSizeForSize with the same candidate size on one
\* snapshot return the same result; when the result has a width and a height
\* above 0, one call computes it and the other one returns the entry of the
\* map (a result with a width or height of 0 is not kept, and is computed by
\* both calls).
C15_SecondCallHitsForPositiveSize ==
    \A c, d \in Callers :
        ReturnedSame(c, d)
            => /\ callers[c].result = callers[d].result
               /\ (callers[c].result.Width > 0 /\ callers[c].result.Height > 0)
                      => OneHit(c, d)
               /\ (Len(li.cells) > 0
                       /\ (callers[c].result.Width = 0 \/ callers[c].result.Height = 0))
                      => callers[c].computed /\ callers[d].computed

\* C15: both callers have returned the same result with a width and a
\* height above 0 for the same size, one of them from the map.
C15_Witness ==
    /\ ReturnedSame("c1", "c2")
    /\ callers["c1"].computed
    /\ callers["c2"].hit
    /\ callers["c1"].result.Width > 0
    /\ callers["c1"].result.Height > 0
    /\ callers["c2"].result = callers["c1"].result
    /\ callers["c1"].result = MinSizeForSize(li, callers["c1"].size)

\* The callers inside the row loop or just behind it.
Computing == {c \in Callers : callers[c].pc \in {"columns", "mainLock", "mainRead",
                                                 "mainWrite", "mainUnlock", "sum"}}

\* The laid-out items with vertical span 1 in a row of the snapshot, by
\* their columns (row and columns counted from 0).
ColumnsOfRow(row) ==
    {col \in 0..(Len(li.columnStretchFactors) - 1) : cellVisit(li, row, col) # "skip"}

\* C16: in MinSizeForSize, under every interleaving of the goroutines of a
\* row, heights[row] is assigned only when no goroutine of that row is left,
\* and it is the largest height of the laid-out items with vertical span 1
\* in the row (HeightForWidth at the spanned width for height-for-width
\* items, the effective minimum height for the others; 0 without items): no
\* update of maxHeight is lost.
C16_RowHeightAfterAllTasks ==
    \A c \in Computing :
        \A r \in 1..callers[c].row :
            /\ \A t \in callers[c].tasks : t.row # r - 1
            /\ callers[c].wg[r] = 0
            /\ \A col \in ColumnsOfRow(r - 1) :
                   callers[c].heights[r] >= cellHeight(li, callers[c].widths, r - 1, col)
            /\ ColumnsOfRow(r - 1) # {}
                   => \E col \in ColumnsOfRow(r - 1) :
                          callers[c].heights[r] = cellHeight(li, callers[c].widths, r - 1, col)
            /\ ColumnsOfRow(r - 1) = {} => callers[c].heights[r] = 0

\* C16: the first row holds a height-for-width item, whose height was
\* computed by a goroutine, and a lower item without height for width; the
\* row loop is over and heights[0] is the height of the height-for-width
\* item.
C16_Witness ==
    /\ callers["c1"].pc = "sum"
    /\ \E a, b \in ColumnsOfRow(0) :
           /\ cellVisit(li, 0, a) = "task"
           /\ cellVisit(li, 0, b) = "height"
           /\ cellHeight(li, callers["c1"].widths, 0, a)
                  > cellHeight(li, callers["c1"].widths, 0, b)
           /\ cellHeight(li, callers["c1"].widths, 0, b) > 0
           /\ callers["c1"].heights[1] = cellHeight(li, callers["c1"].widths, 0, a)
    /\ callers["c1"].tasks = {}

\* The callers between li.mutex.Lock() and the deferred li.mutex.Unlock():
\* those that read or write li.size2MinSize.
Holders == {c \in Callers : callers[c].pc \in {"lookup", "columns", "mainLock",
                                               "mainRead", "mainWrite", "mainUnlock",
                                               "sum", "unlock"}}

\* C17: of the callers of MinSizeForSize on one snapshot at most one at a
\* time is between Lock and Unlock of li.mutex, and it is the one the mutex
\* is held by, so that no two callers read or write li.size2MinSize at the
\* same time; a caller that has returned, from an entry of the map or with
\* a computed result, no longer holds the mutex.
C17_MutualExclusion ==
    /\ Cardinality(Holders) <= 1
    /\ \A c \in Callers : (mutex = c) <=> (c \in Holders)
    /\ (mutex = Unlocked) <=> (Holders = {})
    /\ \A c \in Callers : callers[c].pc = "done" => mutex # c

\* C17: a caller has returned with a computed result and has released the
\* mutex, which the other caller holds on its way back with an entry of the
\* map.
C17_Witness ==
    /\ callers["c1"].pc = "done"
    /\ callers["c1"].computed
    /\ callers["c2"].pc = "unlock"
    /\ callers["c2"].hit
    /\ mutex = "c2"

\* The sum the minimum size is stated to have on one axis: the margins, the
\* section sizes that are not 0, and one spacing less than there are such
\* sections.
StatedSum(snap, sizes, orientation) ==
    LET nonZero == {k \in 1..Len(sizes) : sizes[k] > 0}
        spacingPixels == IntFrom96DPI(snap.spacing, snap.dpi)
    IN  NearFarMargins(snap, orientation)
            + SumOver(sizes, nonZero)
            + spacingPixels * (IF nonZero = {} THEN 0 ELSE Cardinality(nonZero) - 1)

\* C19 as stated: the size MinSizeForSize computes is, on each axis, near
\* margin + far margin + the section sizes that are not 0 + spacing times
\* (the number of such sections - 1, or 0 without such sections); a section
\* of size 0 before the first other one adds no spacing.
C19_SpacingBetweenNonZeroSections ==
    \A c \in Callers :
        (callers[c].pc = "unlock" /\ callers[c].computed)
            => LET ww == sectionSizesForSpace(li, Horizontal, callers[c].size.Width, <<>>)
               IN  /\ callers[c].result.Width = StatedSum(li, minWidths(li), Horizontal)
                   /\ callers[c].result.Height = StatedSum(li, rowHeights(li, ww), Vertical)

(***************************************************************************)
(* PerformLayout.  The result is the set of the entries appended (the       *)
(* slice has them in the order of the iteration over the map item2Info).    *)
(* align is li.alignment; the items' own Geometry().Alignment is        *)
(* AlignHVDefault.                                                          *)
(***************************************************************************)
Alignments ==
    {"AlignHNearVNear", "AlignHCenterVNear", "AlignHFarVNear",
     "AlignHNearVCenter", "AlignHCenterVCenter", "AlignHFarVCenter",
     "AlignHNearVFar", "AlignHCenterVFar", "AlignHFarVFar"}

\* The offset without the spacing behind the sections.
offsetOf_NoSpacing(near, sizes, spacingPixels, index) ==
    near + SumOver(sizes, {i \in 1..index : sizes[i] > 0})

\* Lines 587-599: the near margin and, for every section before the cell
\* that is not 0, its size and a spacing.
offsetOf(near, sizes, spacingPixels, index) ==
    LET before == {i \in 1..index : sizes[i] > 0}
    IN  near + SumOver(sizes, before) + spacingPixels * Cardinality(before)

\* The items of item2Info that PerformLayout does not skip at line 583 (the
\* nil item, the key of widgets without cells, is not laid out).
LaidOut(snap) ==
    {it \in Widgets : snap.item2Info[it] # NoInfo /\ shouldLayoutItem(it)}

\* Every item at the origin of its span with its ideal size.
boundsOf_AlwaysIdeal(snap, ws, hs, align, it) ==
    LET info == snap.item2Info[it]
        marginsPixels == MarginsFrom96DPI(snap.margins, snap.dpi)
        spacingPixels == IntFrom96DPI(snap.spacing, snap.dpi)
    IN  [X |-> offsetOf(marginsPixels.HNear, ws, spacingPixels, info.cell.c),
         Y |-> offsetOf(marginsPixels.VNear, hs, spacingPixels, info.cell.r),
         Width |-> PreferredSize(it).Width,
         Height |-> PreferredSize(it).Height]

\* Lines 587-660 for one item.
boundsOf(snap, ws, hs, align, it) ==
    LET info == snap.item2Info[it]
        marginsPixels == MarginsFrom96DPI(snap.margins, snap.dpi)
        spacingPixels == IntFrom96DPI(snap.spacing, snap.dpi)
        x == offsetOf(marginsPixels.HNear, ws, spacingPixels, info.cell.c)
        y == offsetOf(marginsPixels.VNear, hs, spacingPixels, info.cell.r)
        width == spannedWidth(snap, info, ws)
        height == spannedHeight(snap, info, hs)
        lf == items[it].flags
        max == items[it].maxSize
        ideal == PreferredSize(it)
        sWidth == IF max.Width > 0 /\ ideal.Width > max.Width THEN max.Width ELSE ideal.Width
        sHeight == IF max.Height > 0 /\ ideal.Height > max.Height
                   THEN max.Height ELSE ideal.Height
        shrinks == "GrowableHorz" \notin lf \/ "GrowableVert" \notin lf
        w == IF shrinks /\ "GrowableHorz" \notin lf THEN sWidth ELSE width
        h == IF ~shrinks THEN height
             ELSE IF HasHeightForWidth(it) THEN HeightForWidth(it, w)
             ELSE IF "GrowableVert" \notin lf THEN sHeight
             ELSE height
        dx == IF w = width THEN 0
              ELSE IF align \in {"AlignHCenterVNear", "AlignHCenterVCenter",
                                     "AlignHCenterVFar"}
              THEN Truncated(width - w, 2)
              ELSE IF align \in {"AlignHFarVNear", "AlignHFarVCenter", "AlignHFarVFar"}
              THEN width - w
              ELSE 0
        dy == IF h = height THEN 0
              ELSE IF align \in {"AlignHNearVCenter", "AlignHCenterVCenter",
                                     "AlignHFarVCenter"}
              THEN Truncated(height - h, 2)
              ELSE IF align \in {"AlignHNearVFar", "AlignHCenterVFar", "AlignHFarVFar"}
              THEN height - h
              ELSE 0
    IN  [X |-> x + dx, Y |-> y + dy, Width |-> w, Height |-> h]

\* Lines 577-663: the entries for widths ws and heights hs.
resultItems(snap, ws, hs, align) ==
    {[Item |-> it, Bounds |-> boundsOf(snap, ws, hs, align, it)] : it \in LaidOut(snap)}

PerformLayout(snap, clientSize, align) ==
    LET ws == sectionSizesForSpace(snap, Horizontal, clientSize.Width, <<>>)
        hs == sectionSizesForSpace(snap, Vertical, clientSize.Height, ws)
    IN  resultItems(snap, ws, hs, align)

\* The snapshot with the cells of the item empty, and without the item.
Emptied(snap, it) ==
    [snap EXCEPT
        !.cells = [i \in 1..Len(snap.cells) |->
                      [j \in 1..Len(snap.cells[i]) |->
                          IF snap.cells[i][j].item = it
                          THEN [snap.cells[i][j] EXCEPT !.item = NoItem]
                          ELSE snap.cells[i][j]]],
        !.item2Info[it] = NoInfo,
        !.children = SelectSeq(snap.children, LAMBDA child : child # it)]

\* The hidden items in cells of the snapshot: shouldLayoutItem is false for
\* them.
HiddenItems ==
    {it \in Widgets :
        /\ \E i \in 1..Len(li.cells) : \E j \in 1..Len(li.cells[i]) : li.cells[i][j].item = it
        /\ ~items[it].visible}

\* C18: an item for which shouldLayoutItem is false changes no result:
\* sectionSizesForSpace on both axes and MinSizeForSize return what they
\* return for the snapshot with the cells of the item empty, and
\* PerformLayout has no entry for the item, whatever the alignment, and the
\* entries it has for the snapshot with the cells of the item empty.
C18_HiddenItemHasNoEffect ==
    pc = "heights" =>
        \A it \in HiddenItems :
            LET without == Emptied(li, it)
            IN  /\ widths = sectionSizesForSpace(without, Horizontal, size.Width, <<>>)
                /\ heights = sectionSizesForSpace(without, Vertical, size.Height, widths)
                /\ MinSizeForSize(li, size) = MinSizeForSize(without, size)
                /\ \A entry \in PerformLayout(li, size, "AlignHNearVNear") : entry.Item # it
                /\ \A align \in Alignments :
                       /\ \A entry \in resultItems(li, widths, heights, align) :
                              entry.Item # it
                       /\ resultItems(li, widths, heights, align)
                              = resultItems(without, widths, heights, align)

\* C18: a hidden item and a laid-out item have cells in the same column;
\* the widths and heights computed are those of the snapshot without the
\* hidden item, and PerformLayout has an entry for the other item only.
C18_Witness ==
    /\ pc = "heights"
    /\ size = Size(220, 120)
    /\ \E it \in HiddenItems, other \in LaidOut(li) :
           /\ li.item2Info[it] # NoInfo
           /\ li.item2Info[it].cell.c = li.item2Info[other].cell.c
           /\ li.item2Info[it].cell.r # li.item2Info[other].cell.r
           /\ MinSizeEffectiveForChild(it).Width > MinSizeEffectiveForChild(other).Width
           /\ widths = sectionSizesForSpace(Emptied(li, it), Horizontal, size.Width, <<>>)
           /\ heights = sectionSizesForSpace(Emptied(li, it), Vertical, size.Height, widths)
           /\ {entry.Item : entry \in PerformLayout(li, size, "AlignHNearVNear")} = {other}

(***************************************************************************)
(* The maximum size of a section.                                           *)
(***************************************************************************)
\* The laid-out items in the cells of section k (0-based) of an axis.
LaidOutIn(orientation, k) ==
    {it \in (IF orientation = Horizontal THEN ItemsInColumn(k) ELSE ItemsInRow(k)) :
        shouldLayoutItem(it)}

\* The size of an item on the axis.
Along(orientation, s) == IF orientation = Horizontal THEN s.Width ELSE s.Height

\* The maximum size stated for a section with the laid-out items its: the
\* largest explicit maximum if an item has one, else the largest preferred
\* size of the items that do not grow on the axis, else 32768.
StatedMaximum(orientation, its) ==
    LET growable == IF orientation = Horizontal THEN "GrowableHorz" ELSE "GrowableVert"
        explicit == {Along(orientation, items[it].maxSize) : it \in its} \ {0}
        preferred == {Along(orientation, PreferredSize(it)) :
                          it \in {i \in its : growable \notin items[i].flags}} \ {0}
    IN  IF explicit # {} THEN MaxOf(explicit)
        ELSE IF preferred # {} THEN MaxOf(preferred)
        ELSE 32768

\* C20 as stated: the maximum size sectionSizesForSpace works with for a
\* section with laid-out items is the largest explicit maximum of these
\* items if one of them has an explicit maximum, whatever the other items
\* and the order of the items; else the preferred size of an item that does
\* not grow; else 32768.  (Sections with a height-for-width item are left to
\* their own rule on the vertical axis.)
C20_SectionMaximumAsStated ==
    \A orientation \in {Horizontal, Vertical} :
        Computed(orientation) =>
            \A k \in Sections(orientation) :
                LET its == LaidOutIn(orientation, k - 1)
                IN  (/\ its # {}
                     /\ orientation = Vertical => \A it \in its : ~HasHeightForWidth(it))
                        => InfosOf(orientation)[k].maxSize = StatedMaximum(orientation, its)

(***************************************************************************)
(* The minimum size of a section.                                           *)
(***************************************************************************)
\* The span of an item on the axis.
SpanOn(orientation, it) ==
    IF orientation = Horizontal
    THEN li.item2Info[it].spanHorz
    ELSE li.item2Info[it].spanVert

\* The effective minimum size of an item on the axis: for rows and an item
\* with height for width its height at its spanned width.
EffectiveMinimum(orientation, it) ==
    IF orientation = Vertical /\ HasHeightForWidth(it)
    THEN HeightForWidth(it, spannedWidth(li, li.item2Info[it], widths))
    ELSE Along(orientation, MinSizeEffectiveForChild(it))

\* The largest effective minimum of the laid-out items of section k
\* (0-based) whose span on the axis is 1.
SingleSpanMinimum(orientation, k) ==
    MaxOf({EffectiveMinimum(orientation, it) :
              it \in {i \in LaidOutIn(orientation, k) : SpanOn(orientation, i) = 1}})

\* The laid-out items in cells of the snapshot.
LaidOutInCells == UNION {LaidOutIn(Horizontal, k - 1) : k \in Sections(Horizontal)}

\* C21: the minimum size of a section, in sectionSizesForSpace and for the
\* columns in MinSizeForSize, is the largest effective minimum size (the
\* height for the spanned width for height-for-width items in rows) of the
\* laid-out items of the section whose span on the axis is 1; items of a
\* larger span add nothing, and with items of horizontal span 2 or more
\* only the minimum width is the sum of the horizontal margins.
C21_SectionMinimumFromSingleSpan ==
    /\ \A orientation \in {Horizontal, Vertical} :
           Computed(orientation) =>
               \A k \in Sections(orientation) :
                   InfosOf(orientation)[k].minSize = SingleSpanMinimum(orientation, k - 1)
    /\ pc = "heights" =>
           /\ \A k \in Sections(Horizontal) :
                  minWidths(li)[k] = SingleSpanMinimum(Horizontal, k - 1)
           /\ (\A it \in LaidOutInCells : SpanOn(Horizontal, it) >= 2)
                  => MinSizeForSize(li, size).Width = NearFarMargins(li, Horizontal)

\* C21: the laid-out items all span two columns, one of them has an
\* effective minimum width above 0; every column has the minimum width 0
\* and the minimum width of the grid is the sum of the horizontal margins.
C21_Witness ==
    /\ pc = "heights"
    /\ LaidOutInCells # {}
    /\ \A it \in LaidOutInCells : SpanOn(Horizontal, it) = 2
    /\ \E it \in LaidOutInCells : MinSizeEffectiveForChild(it).Width > 0
    /\ \A k \in Sections(Horizontal) :
           InfosOf(Horizontal)[k].minSize = 0 /\ minWidths(li)[k] = 0
    /\ MinSizeForSize(li, size).Width = NearFarMargins(li, Horizontal)
    /\ NearFarMargins(li, Horizontal) > 0

(***************************************************************************)
(* PerformLayout on a snapshot, step by step: the widths, the heights, and  *)
(* the loop over item2Info, which meets the items in any order and appends  *)
(* one entry for every item it does not skip.                               *)
(***************************************************************************)
\* A wrapping text of fixed width: height for width, growable vertically
\* only.
TextColumn ==
    [spacer |-> FALSE, visible |-> TRUE,
     flags |-> {"ShrinkableVert", "GrowableVert"},
     idealSize |-> Size(80, 10), minSize |-> Size(20, 10), maxSize |-> Size(0, 0),
     hfw |-> TRUE, area |-> 800]

\* An ImageView in ImageViewModeIdeal with a 30x20 image and a maximum size
\* of 25x15 set: no flags.
Thumbnail ==
    [spacer |-> FALSE, visible |-> TRUE,
     flags |-> {},
     idealSize |-> Size(30, 20), minSize |-> Size(25, 15), maxSize |-> Size(25, 15),
     hfw |-> FALSE, area |-> 0]

\* The kinds of items PerformLayout is followed on.
PerformKinds == {Growable, ImageViewIdeal, Label, TextColumn, Thumbnail, HSpacer, Hidden}

\* The values of li.alignment PerformLayout is followed on: the default and
\* one for each of near, center and far on both axes.
PerformAlignments ==
    {AlignHVDefault, "AlignHNearVNear", "AlignHCenterVCenter", "AlignHFarVFar"}

PerformSettings ==
    {[margins |-> Margins(9, 9, 9, 9), spacing |-> 6, dpi |-> 96],
     [margins |-> Margins(1, 2, 3, 4), spacing |-> 0, dpi |-> 96]}

\* The grids PerformLayout is followed on: the configured grids whose
\* stretch factors are all 1.
PerformGrids ==
    {l \in ConfiguredGrids :
        /\ \A k \in 1..Len(l.rowStretchFactors) : l.rowStretchFactors[k] = 1
        /\ \A k \in 1..Len(l.columnStretchFactors) : l.columnStretchFactors[k] = 1}

PerformInit ==
    \E l \in PerformGrids, settings \in PerformSettings :
        /\ container = TheContainer
        /\ rowStretchFactors = l.rowStretchFactors
        /\ columnStretchFactors = l.columnStretchFactors
        /\ widgetBase2Info = l.widgetBase2Info
        /\ cells = l.cells
        /\ lastCall = [op |-> "CreateLayoutItem", err |-> NoError, layoutRequests |-> 0]
        /\ lastRange = [wb \in Widgets |-> Range(l, TheContainer, wb)]
        /\ calls = 0
        /\ \E kinds \in [Referenced(l) -> PerformKinds] :
               items = [wb \in Widgets |->
                           IF wb \in Referenced(l) THEN kinds[wb] ELSE NotCreated]
        /\ \E orphan \in (IF Orphans(l) = {} THEN {NoWidget} ELSE Orphans(l)) :
               li = CreateLayoutItem(l, orphan, settings.margins, settings.spacing,
                                     settings.dpi)
        /\ NoRun
        /\ NoCalls
        /\ alignment \in PerformAlignments
        /\ results = <<>>
        /\ pc = "snapshot"
        /\ size = Size(0, 0)
        /\ widths = <<>>
        /\ heights = <<>>

\* The orders in which a loop can meet the elements of S.
Orders(S) ==
    {order \in [1..Cardinality(S) -> S] :
        \A i, j \in 1..Cardinality(S) : order[i] = order[j] => i = j}

\* Lines 577-663: the loop over li.item2Info and the return.
AppendResults ==
    /\ pc = "heights"
    /\ \E order \in Orders(LaidOut(li)) :
           results' = [i \in 1..Len(order) |->
                          [Item |-> order[i],
                           Bounds |-> boundsOf(li, widths, heights, alignment, order[i])]]
    /\ pc' = "placed"
    /\ UNCHANGED <<gridVars, sortVars, minSizeVars, items, li, size, widths, heights,
                   alignment>>

PerformNext ==
    \/ \E clientSize \in ClientSizes : HorizontalSectionSizes(clientSize)
    \/ VerticalSectionSizes
    \/ AppendResults

SpecPerform == PerformInit /\ [][PerformNext]_vars

(***************************************************************************)
(* Claims on PerformLayout.                                                 *)
(***************************************************************************)
\* The entries PerformLayout has returned.
Entries == IF pc = "placed" THEN {results[i] : i \in 1..Len(results)} ELSE {}

\* The origin of a span on one axis: the near margin plus, for every section
\* before the first cell that is not 0, its size and one spacing.
SpanOrigin(near, sizes, first) ==
    near + SumOver([i \in 1..Len(sizes) |-> sizes[i] + IntFrom96DPI(li.spacing, li.dpi)],
                   {i \in 1..first : sizes[i] > 0})

\* The cell-span rectangle of an item.
SpanRectangle(it) ==
    LET info == li.item2Info[it]
        marginsPixels == MarginsFrom96DPI(li.margins, li.dpi)
    IN  [X |-> SpanOrigin(marginsPixels.HNear, widths, info.cell.c),
         Y |-> SpanOrigin(marginsPixels.VNear, heights, info.cell.r),
         Width |-> spannedWidth(li, info, widths),
         Height |-> spannedHeight(li, info, heights)]

InsideHorz(entry) ==
    LET span == SpanRectangle(entry.Item)
    IN  /\ entry.Bounds.Width <= span.Width
        /\ entry.Bounds.X >= span.X
        /\ entry.Bounds.X + entry.Bounds.Width <= span.X + span.Width

InsideVert(entry) ==
    LET span == SpanRectangle(entry.Item)
    IN  /\ entry.Bounds.Height <= span.Height
        /\ entry.Bounds.Y >= span.Y
        /\ entry.Bounds.Y + entry.Bounds.Height <= span.Y + span.Height

\* C22 as stated: the rectangle PerformLayout gives a laid-out item lies
\* inside the cell-span rectangle of the item: its width and height are at
\* most those of the span, so that the space left over for the alignment is
\* never negative.
C22_RectangleInsideSpan ==
    \A entry \in Entries : InsideHorz(entry) /\ InsideVert(entry)

\* The ideal size of the item (none with height for width), cut to its
\* maximum size.
ClippedIdeal(it) ==
    LET ideal == PreferredSize(it)
        max == items[it].maxSize
    IN  Size(IF max.Width > 0 /\ ideal.Width > max.Width THEN max.Width ELSE ideal.Width,
             IF max.Height > 0 /\ ideal.Height > max.Height THEN max.Height
             ELSE ideal.Height)

\* The item grows horizontally, or it has horizontal span 1 and its ideal
\* width is not above its effective minimum width.
FitsHorz(it) ==
    \/ "GrowableHorz" \in items[it].flags
    \/ /\ SpanOn(Horizontal, it) = 1
       /\ ClippedIdeal(it).Width <= MinSizeEffectiveForChild(it).Width

\* The same vertically; an item with height for width grows horizontally
\* and either grows vertically too or has vertical span 1.
FitsVert(it) ==
    IF HasHeightForWidth(it)
    THEN /\ "GrowableHorz" \in items[it].flags
         /\ "GrowableVert" \in items[it].flags \/ SpanOn(Vertical, it) = 1
    ELSE \/ "GrowableVert" \in items[it].flags
         \/ /\ SpanOn(Vertical, it) = 1
            /\ ClippedIdeal(it).Height <= MinSizeEffectiveForChild(it).Height

\* C22: on an axis on which a laid-out item grows, or on which it has span 1
\* and an ideal size (cut to its maximum size) that is not above its
\* effective minimum size, the rectangle PerformLayout gives the item lies
\* inside the cell-span rectangle of the item and the space left over for
\* the alignment is not negative; an item with height for width needs to
\* grow horizontally and to grow vertically or have vertical span 1.
C22_RectangleInsideSpanWhereItFits ==
    \A entry \in Entries :
        /\ FitsHorz(entry.Item) => InsideHorz(entry)
        /\ FitsVert(entry.Item) => InsideVert(entry)

\* C22: an item that does not grow has a rectangle narrower than its
\* cell-span rectangle, which begins behind another column, and is centered
\* in it.
C22_Witness ==
    /\ alignment = "AlignHCenterVCenter"
    /\ \E entry \in Entries :
           LET span == SpanRectangle(entry.Item)
           IN  /\ items[entry.Item].flags = {}
               /\ FitsHorz(entry.Item)
               /\ FitsVert(entry.Item)
               /\ entry.Bounds.Width < span.Width
               /\ entry.Bounds.Height <= span.Height
               /\ entry.Bounds.X = span.X + (span.Width - entry.Bounds.Width) \div 2
               /\ entry.Bounds.Y = span.Y + (span.Height - entry.Bounds.Height) \div 2
               /\ entry.Bounds.X > span.X
               /\ span.X > MarginsFrom96DPI(li.margins, li.dpi).HNear

\* The entry has the size and the offset of the span on the axis.
FillsHorz(entry) ==
    LET span == SpanRectangle(entry.Item)
    IN  entry.Bounds.Width = span.Width /\ entry.Bounds.X = span.X

FillsVert(entry) ==
    LET span == SpanRectangle(entry.Item)
    IN  entry.Bounds.Height = span.Height /\ entry.Bounds.Y = span.Y

\* C23 as stated: on each axis on which an item is growable, PerformLayout
\* gives it the size of its span and the origin of its span on that axis,
\* whatever its flags on the other axis, with or without height for width.
C23_GrowableAxisFillsSpan ==
    \A entry \in Entries :
        /\ "GrowableHorz" \in items[entry.Item].flags => FillsHorz(entry)
        /\ "GrowableVert" \in items[entry.Item].flags => FillsVert(entry)

\* C23: an item that is growable horizontally gets the width and the
\* horizontal origin of its span; an item that is growable vertically gets
\* the height and the vertical origin of its span if it is growable
\* horizontally too or has no height for width.  A height-for-width item
\* that is not growable horizontally gets the height for its width, also
\* when it is growable vertically.
C23_GrowableAxisFillsSpanUnlessHeightForWidth ==
    \A entry \in Entries :
        LET lf == items[entry.Item].flags
        IN  /\ "GrowableHorz" \in lf => FillsHorz(entry)
            /\ ("GrowableVert" \in lf
                    /\ ("GrowableHorz" \in lf \/ ~HasHeightForWidth(entry.Item)))
                   => FillsVert(entry)
            /\ (HasHeightForWidth(entry.Item) /\ "GrowableHorz" \notin lf)
                   => entry.Bounds.Height
                          = HeightForWidth(entry.Item, entry.Bounds.Width)

\* C23: an item growable on both axes spans two columns behind a column
\* that is not 0 and fills its span, which is larger than its ideal size,
\* under an alignment that would move a smaller item.
C23_Witness ==
    /\ alignment = "AlignHFarVFar"
    /\ \E entry \in Entries :
           LET span == SpanRectangle(entry.Item)
           IN  /\ items[entry.Item] = Growable
               /\ SpanOn(Horizontal, entry.Item) = 2
               /\ entry.Bounds = span
               /\ span.X > MarginsFrom96DPI(li.margins, li.dpi).HNear
               /\ span.Width > PreferredSize(entry.Item).Width
               /\ span.Height > PreferredSize(entry.Item).Height

(***************************************************************************)
(* Claims on the snapshot.                                                  *)
(***************************************************************************)
\* The keys of li.item2Info.
Keys == {it \in Widgets \cup {NoItem} : li.item2Info[it] # NoInfo}

\* The items in the cells of the snapshot.
ItemsInCells == UNION {ItemsInColumn(k - 1) : k \in Sections(Horizontal)}

\* C24 as stated: in the snapshot CreateLayoutItem builds after successful
\* SetRange calls, overlapping ones included, every key of item2Info is a
\* layout item, not nil, and one of the children; there is one child for
\* every widget a cell references, and no other; and the cell an item's
\* info records holds this item.
C24_SnapshotWellFormed ==
    /\ \A it \in Keys :
           /\ it # NoItem
           /\ \E i \in 1..Len(li.children) : li.children[i] = it
           /\ li.cells[li.item2Info[it].cell.r + 1][li.item2Info[it].cell.c + 1].item = it
    /\ {li.children[i] : i \in 1..Len(li.children)} = ItemsInCells
    /\ Len(li.children) = Cardinality(ItemsInCells)

=============================================================================
